---- MODULE Spec2Model ----
(***************************************************************************)
(* A model of the UHF RFID reader host software: the R200 frame encoder    *)
(* and streaming decoder, the asynchronous command/response session built  *)
(* on them, and the detection orchestrator that probes ports x detectors.  *)
(*                                                                         *)
(* Bytes are integers 0..255.  Python sequences are 0-based; the helpers   *)
(* At and Slice translate the source's indices to TLA+ sequences.          *)
(***************************************************************************)
EXTENDS Integers, Sequences, FiniteSets, TLC

VARIABLES
    \* ---- inbound byte stream (what the reader sends), fixed at Init
    segs,               \* the reader's script: a sequence of segment descriptors
    stream,             \* the bytes of segs, concatenated
    cuts,               \* offsets of stream at which the transport may end a chunk
    \* ---- AsyncR200Interrogator, one entry per session
    fed,                \* bytes of stream already pushed into the session's data sink
    response_buffer,    \* self.response_buffer
    current_callback,   \* self._current_callback: Unset, NoneCb, OnResponse or ReqCb(r)
    delivered,          \* responses passed to the current callback, in order
    sink_raised,        \* whether the last run of the data sink raised (IndexError)
    is_connected,       \* self.transport.is_connected
    written,            \* number of commands handed to transport.write
    \* ---- read_single() calls of the session "sess"
    rpc,                \* position of each read_single call
    future,             \* result_future of each call
    fresult,            \* the future's result
    retval,             \* what read_single returned
    issued_at,          \* history: bytes of stream fed when the call wrote its command
    \* ---- ReaderDetectionManager and the probes of one sweep
    plausible_ports,    \* what get_plausible_ports() returns
    detectors,          \* self.detectors, the registered detectors
    sweep_pc,           \* position of detect_all_readers_async
    detection_tasks,    \* the (port, detector) coroutines handed to gather
    detected_readers,   \* self.detected_readers, which the sweep returns
    probes,             \* one record per task: the probe and its transport
    calls,              \* overlapping calls of detect_all_readers_async: their frames
    transport           \* a SerialTransport driven by its owner, with a log of its writes

sessVars == <<segs, stream, cuts, fed, response_buffer, current_callback, delivered,
              sink_raised, is_connected, written>>
reqVars  == <<rpc, future, fresult, retval, issued_at>>

sweepVars == <<plausible_ports, detectors, sweep_pc, detection_tasks,
               detected_readers, probes, calls, transport>>

vars == <<sessVars, reqVars, sweepVars>>

-----------------------------------------------------------------------------
(* Bounds of the model *)

\* segments in the reader's script of the decoder specification
MaxSegs == 3
\* segments in the reader's script of the session specification
MaxSessSegs == 2
\* read_single calls issued on the session
MaxReqs == 2

-----------------------------------------------------------------------------
(* Python sequence helpers *)

At(inp, pos) == inp[pos + 1]

Min(a, b) == IF a < b THEN a ELSE b

\* inp[a:b] for 0 <= a
Slice(inp, a, b) == SubSeq(inp, a + 1, Min(b, Len(inp)))

RECURSIVE SumSeq(_)
SumSeq(s) == IF s = <<>> THEN 0 ELSE Head(s) + SumSeq(Tail(s))

RECURSIVE Concat(_)
Concat(ss) == IF ss = <<>> THEN <<>> ELSE Head(ss) \o Concat(Tail(ss))

-----------------------------------------------------------------------------
(* R200 encoder: R200Command.__bytes__ *)

\* an encoder whose checksum takes in the start marker as well
R200CommandBytes_sum_all(cmd, payload) ==
    LET payload_len == Len(payload)
        head == <<0, cmd, (payload_len \div 256) % 256, payload_len % 256>>
        checksum == SumSeq(<<170>> \o head \o payload)
    IN  <<170>> \o head \o payload \o <<checksum % 256, 221>>

R200CommandBytes(cmd, payload) ==
    LET payload_len == Len(payload)
        head == <<0, cmd, (payload_len \div 256) % 256, payload_len % 256>>
        checksum == SumSeq(head \o payload)
    IN  <<170>> \o head \o payload \o <<checksum % 256, 221>>

\* R200Command.rawbytes: the flavor is checked and stored, then self.bytes()
\* is called, a method the class and its base do not have
rawbytes(cmd, payload, flavor) ==
    IF flavor \notin {"AADD", "BB7E"}
    THEN [raised |-> "ValueError", val |-> <<>>]
    ELSE [raised |-> "AttributeError", val |-> <<>>]

\* send_command's patch of the start and stop byte for the BB7E flavor
PatchFlavor(flavor, command) ==
    IF flavor = "BB7E"
    THEN <<187>> \o SubSeq(command, 2, Len(command) - 1) \o <<126>>
    ELSE command

-----------------------------------------------------------------------------
(* Frames the reader sends (reader -> host), as the source documents them:  *)
(* start, type, command, 16 bit payload length, payload, checksum, stop.   *)

ReaderFrame(start, type, cmd, payload, stop) ==
    LET head == <<type, cmd, Len(payload) \div 256, Len(payload) % 256>>
    IN  <<start>> \o head \o payload \o <<SumSeq(head \o payload) % 256, stop>>

\* payload of a single-read notification: RSSI, PC word, EPC, EPC CRC
SinglePayload(epc) == <<201, 48, 0>> \o epc \o <<18, 52>>

\* one byte of the payload replaced, the checksum byte left as it was
CorruptPayload(frame, i) ==
    [frame EXCEPT ![5 + i] = (frame[5 + i] + 1) % 256]

-----------------------------------------------------------------------------
(* R200 decoder: parse_single and parse_response of serialinterface.py.     *)
(* A result is a record: raised (an IndexError left the function), val     *)
(* (the returned bytes) and out (what was printed, in order).              *)

Raised(out) == [raised |-> TRUE, val |-> <<>>, out |-> out]
Returned(val, out) == [raised |-> FALSE, val |-> val, out |-> out]

\* msg[1] and msg[2] are read before the EPC is sliced out as msg[3:-3]
parse_single(msg, out) ==
    IF Len(msg) < 3
    THEN Raised(out)
    ELSE Returned(SubSeq(msg, 4, Len(msg) - 3), out \o <<"EPC">>)

\* end marker expected for the start marker that opened the frame
end_byte(start_byte) == IF start_byte = 170 THEN 221 ELSE 126

\* sum(i for i in inp[pos-4:pos+pl]) & 0xFF
checksum_actual(inp, pos, pl) == SumSeq(Slice(inp, pos - 4, pos + pl)) % 256

\* state 3 of the loop, entered with pos at the first payload byte; the
\* result is either the return value of parse_single or "continue"
RECURSIVE parse_loop(_, _, _, _, _, _, _, _)
\* a state 3 that returns the payload of every frame it recognises, the
\* heartbeat's included
parse_state3_any(inp, pos, msg_type, msg_cmd, pl, start_byte, out) ==
    IF pos + pl + 1 >= Len(inp)
    THEN Raised(out)
    ELSE IF At(inp, pos + pl + 1) = end_byte(start_byte)
         THEN IF msg_type = 2 /\ msg_cmd = 34
              THEN parse_single(Slice(inp, pos, pos + pl + 1), out)
              ELSE Returned(Slice(inp, pos, pos + pl), out)
         ELSE parse_loop(inp, 0, pos + 1, 0, 0, 0, start_byte,
                         out \o <<"parse error">>)

parse_state3(inp, pos, msg_type, msg_cmd, pl, start_byte, out) ==
    IF pos + pl + 1 >= Len(inp)
    THEN Raised(out)
    ELSE IF At(inp, pos + pl + 1) = end_byte(start_byte)
         THEN LET out1 == IF At(inp, pos + pl) # checksum_actual(inp, pos, pl)
                          THEN out \o <<"invalid checksum">>
                          ELSE out
              IN  IF msg_type = 2 /\ msg_cmd = 34
                  THEN parse_single(Slice(inp, pos, pos + pl + 1), out1)
                  ELSE IF msg_type = 1 /\ msg_cmd = 255
                       THEN parse_loop(inp, 0, pos + 1, 0, 0, 0, start_byte,
                                       out1 \o <<".">>)
                       ELSE parse_loop(inp, 0, pos + 1, 0, 0, 0, start_byte, out1)
         ELSE parse_loop(inp, 0, pos + 1, 0, 0, 0, start_byte,
                         out \o <<"parse error">>)

\* a scan that gives up at the first byte that is no start marker
next_start_gives_up(inp, pos) == Len(inp)

\* in state 0 the loop steps over every byte that is no start marker: the
\* position at or after pos where it stops doing so, the end of inp if none
next_start(inp, pos) ==
    LET starts == {q \in pos..(Len(inp) - 1) : At(inp, q) = 170 \/ At(inp, q) = 187}
    IN  IF starts = {} THEN Len(inp)
        ELSE CHOOSE q \in starts : \A o \in starts : q <= o

\* the while loop: pl is reset to 0 before "pos = pos + pl", so after a
\* frame the scan resumes one byte after the position state 3 was entered at
parse_loop(inp, state, pos, msg_type, msg_cmd, pl, start_byte, out) ==
    IF pos >= Len(inp)
    THEN Returned(<<>>, out)
    ELSE IF state = 0 /\ (At(inp, pos) = 170 \/ At(inp, pos) = 187)
    THEN parse_loop(inp, 1, pos + 1, msg_type, msg_cmd, pl, At(inp, pos), out)
    ELSE IF state = 1
    THEN IF pos + 1 >= Len(inp)
         THEN Raised(out)
         ELSE parse_loop(inp, 2, pos + 2, At(inp, pos), At(inp, pos + 1), pl,
                         start_byte, out)
    ELSE IF state = 2
    THEN IF pos + 1 >= Len(inp)
         THEN Raised(out)
         ELSE parse_loop(inp, 3, pos + 2, msg_type, msg_cmd,
                         At(inp, pos) * 256 + At(inp, pos + 1), start_byte, out)
    ELSE IF state = 3
    THEN parse_state3(inp, pos, msg_type, msg_cmd, pl, start_byte, out)
    ELSE parse_loop(inp, state, next_start(inp, pos + 1), msg_type, msg_cmd, pl,
                    start_byte, out)

parse_response(inp) == parse_loop(inp, 0, 0, 0, 0, 0, 0, <<>>)

-----------------------------------------------------------------------------
(* AsyncR200Interrogator._handle_data_received, as a function of the       *)
(* session's buffer and callback and of the chunk received.                *)

\* values of self._current_callback: the attribute does not exist yet, it
\* is None, it is some callable of the caller, or it is the closure of the
\* read_single call r
Unset == <<"unset">>
NoneCb == <<"none">>
OnResponse == <<"cb">>
ReqCb(r) == <<"req", r>>

\* hasattr(self, '_current_callback') and self._current_callback
CallbackSet(cb) == cb # Unset /\ cb # NoneCb

handle_data_received(buffer, cb, data) ==
    LET extended == buffer \o data
        response == parse_response(extended)
    IN  IF response.raised
        THEN [buffer |-> extended, calls |-> <<>>, raised |-> TRUE]
        ELSE IF response.val # <<>>
        THEN [buffer |-> <<>>,
              calls  |-> IF CallbackSet(cb) THEN <<response.val>> ELSE <<>>,
              raised |-> FALSE]
        ELSE [buffer |-> extended, calls |-> <<>>, raised |-> FALSE]

-----------------------------------------------------------------------------
(* The reader's script.  A segment is one of                               *)
(*   single   a valid single-read notification (02/22) carrying EPC <<e>>  *)
(*   corrupt  the same frame with payload byte i changed, checksum kept    *)
(*   beat     the heartbeat / no-tag notification (01/FF)                  *)
(*   noise    one byte that is no start marker                             *)
(*   cmd      the bytes R200Command(c, p) encodes to (a host frame)        *)
(*   info     the module-info reply (01/03) documented in r200.py          *)
(*   empty    a single-read notification whose EPC field is empty          *)
(*   badend   a single-read notification whose last byte is no end marker  *)
(*   marked   a single-read notification with the start and end marker     *)
(*            given, of the other flavor or mixed                          *)

EPCs == {17, 18}
CorruptIdx == {1, 4}
NoiseBytes == {85, 221}
Cmds == {34, 3}
CmdPayloads == {<<>>, <<255>>}

SingleSegs  == {[k |-> "single", e |-> e] : e \in EPCs}
CorruptSegs == {[k |-> "corrupt", e |-> 17, i |-> i] : i \in CorruptIdx}
BeatSegs    == {[k |-> "beat"]}
NoiseSegs   == {[k |-> "noise", b |-> b] : b \in NoiseBytes}
CmdSegs     == {[k |-> "cmd", c |-> c, p |-> p] : c \in Cmds, p \in CmdPayloads}

InfoSegs    == {[k |-> "info"]}

\* a single-read notification whose EPC field is empty
EmptySegs   == {[k |-> "empty"]}

\* the flavor AsyncR200Interrogator.__init__ takes by default, and the
\* start and end marker of each flavor
SessionFlavor == "AADD"
StartOf(fl) == IF fl = "BB7E" THEN 187 ELSE 170
StopOf(fl) == IF fl = "BB7E" THEN 126 ELSE 221

\* EPCs of the frames that end in a wrong byte; 170 is a start marker
BadEndEPCs == {17, 170}
BadEndSegs == {[k |-> "badend", e |-> e] : e \in BadEndEPCs}

\* EPCs carried only by frames whose markers are not both the session's
OtherEPCs == {19}
MarkedSegs ==
    {[k |-> "marked", e |-> e, start |-> StartOf(a), stop |-> StopOf(b)] :
        e \in OtherEPCs,
        a \in {"AADD", "BB7E"}, b \in {"AADD", "BB7E"}}
      \ {[k |-> "marked", e |-> e, start |-> StartOf(SessionFlavor),
           stop |-> StopOf(SessionFlavor)] : e \in OtherEPCs}

\* the module-info text "M100 26dBm V1.0" of the documented R200 answer
ModuleInfoText == <<77, 49, 48, 48, 32, 50, 54, 100, 66, 109, 32, 86, 49, 46, 48>>

SingleFrame(e) == ReaderFrame(170, 2, 34, SinglePayload(<<e>>), 221)

SegBytes(seg) ==
    CASE seg.k = "single"  -> SingleFrame(seg.e)
      [] seg.k = "corrupt" -> CorruptPayload(SingleFrame(seg.e), seg.i)
      [] seg.k = "beat"    -> ReaderFrame(170, 1, 255, <<21>>, 221)
      [] seg.k = "noise"   -> <<seg.b>>
      [] seg.k = "cmd"     -> R200CommandBytes(seg.c, seg.p)
      [] seg.k = "info"    -> ReaderFrame(170, 1, 3, <<0>> \o ModuleInfoText, 221)
      [] seg.k = "empty"   -> ReaderFrame(170, 2, 34, SinglePayload(<<>>), 221)
      [] seg.k = "badend"  -> ReaderFrame(170, 2, 34, SinglePayload(<<seg.e>>), 220)
      [] seg.k = "marked"  -> ReaderFrame(seg.start, 2, 34, SinglePayload(<<seg.e>>),
                                          seg.stop)

StreamOf(ss) == Concat([i \in 1..Len(ss) |-> SegBytes(ss[i])])

Scripts(catalog, n) == UNION {[1..m -> catalog] : m \in 0..n}

-----------------------------------------------------------------------------
(* Decoder specification: two sessions with a response callback registered *)
(* receive the same stream, "bytewise" one byte per chunk and "whole" in a *)
(* single chunk.                                                           *)

DecodeCatalog ==
    SingleSegs \cup CorruptSegs \cup BeatSegs \cup NoiseSegs \cup CmdSegs
        \cup BadEndSegs \cup MarkedSegs

DecodeSessions == {"bytewise", "whole"}

NoRequests ==
    /\ rpc = <<>>
    /\ future = <<>>
    /\ fresult = <<>>
    /\ retval = <<>>
    /\ issued_at = <<>>

\* no detection manager exists
NoSweep ==
    /\ plausible_ports = <<>>
    /\ detectors = <<>>
    /\ sweep_pc = "none"
    /\ detection_tasks = <<>>
    /\ detected_readers = <<>>
    /\ probes = <<>>
    /\ calls = <<>>
    /\ transport = <<>>

InitDecode ==
    /\ segs \in Scripts(DecodeCatalog, MaxSegs)
    /\ stream = StreamOf(segs)
    /\ cuts = {}
    /\ fed = [s \in DecodeSessions |-> 0]
    /\ response_buffer = [s \in DecodeSessions |-> <<>>]
    /\ current_callback = [s \in DecodeSessions |-> OnResponse]
    /\ delivered = [s \in DecodeSessions |-> <<>>]
    /\ sink_raised = [s \in DecodeSessions |-> FALSE]
    /\ is_connected = [s \in DecodeSessions |-> TRUE]
    /\ written = [s \in DecodeSessions |-> 1]
    /\ NoRequests
    /\ NoSweep

\* offsets of the stream where a chunk of the session specification may
\* end: after each segment, and SplitAt bytes into each segment
SplitAt == 5
Cuts(ss) ==
    LET ends == {Len(StreamOf(SubSeq(ss, 1, j))) : j \in 0..Len(ss)}
    IN  ends \cup {e + SplitAt : e \in ends}

\* sizes of the next chunk the transport may push into session s
ChunkSizes(s) ==
    LET left == Len(stream) - fed[s]
    IN  IF left = 0 THEN {}
        ELSE IF s = "bytewise" THEN {1}
        ELSE IF s = "whole" THEN IF fed[s] = 0 THEN {left} ELSE {}
        ELSE {n \in 1..left : fed[s] + n \in cuts}

\* SerialTransportProtocol.data_received -> _handle_data_received
DataReceived(s, n) ==
    /\ is_connected[s]
    /\ n \in ChunkSizes(s)
    /\ LET data == SubSeq(stream, fed[s] + 1, fed[s] + n)
           h == handle_data_received(response_buffer[s], current_callback[s], data)
       IN  /\ fed' = [fed EXCEPT ![s] = @ + n]
           /\ response_buffer' = [response_buffer EXCEPT ![s] = h.buffer]
           /\ sink_raised' = [sink_raised EXCEPT ![s] = h.raised]
           /\ delivered' = [delivered EXCEPT ![s] = @ \o h.calls]
    /\ UNCHANGED <<segs, stream, cuts, current_callback, is_connected, written>>
    /\ UNCHANGED reqVars
    /\ UNCHANGED sweepVars

NextDecode ==
    \E s \in DecodeSessions : \E n \in 1..Len(stream) : DataReceived(s, n)

SpecDecode == InitDecode /\ [][NextDecode]_vars

AllFed(s) == fed[s] = Len(stream)

\* the segments of the script are exactly those of kind k
OnlyKind(k) == segs # <<>> /\ \A j \in 1..Len(segs) : segs[j].k = k

\* C1: a valid R200 frame with exactly one payload byte changed and the
\* checksum byte left as it was is rejected by the decoder: a stream made
\* of such frames yields no payload, and none is passed to the response
\* callback.
C1_CorruptFrameRejected ==
    \A s \in DOMAIN delivered : OnlyKind("corrupt") => delivered[s] = <<>>

\* C2: once the same byte sequence has been delivered completely to both
\* sessions, the one that received it one byte at a time has delivered the
\* same sequence of frames as the one that received it as a single chunk.
C2_ChunkingIndependence ==
    (AllFed("bytewise") /\ AllFed("whole"))
        => delivered["bytewise"] = delivered["whole"]

\* C4: when one noise byte stands between two valid frames in the stream,
\* both frames are delivered, in their order, once the stream has been
\* received.
C4_ResyncAfterNoise ==
    \A s \in DOMAIN delivered :
        (/\ Len(segs) = 3
         /\ segs[1].k = "single" /\ segs[2].k = "noise" /\ segs[3].k = "single"
         /\ AllFed(s))
            => delivered[s] = << <<segs[1].e>>, <<segs[3].e>> >>

\* C5: feeding the bytes the encoder produces for command id c and payload
\* p to the decoder yields one frame, whose payload is p.
C5_EncodeDecodeRoundTrip ==
    \A s \in DOMAIN delivered :
        (Len(segs) = 1 /\ segs[1].k = "cmd" /\ AllFed(s))
            => (~sink_raised[s] /\ delivered[s] = <<segs[1].p>>)


-----------------------------------------------------------------------------
(* Session specification: one AsyncR200Interrogator "sess" on a serial     *)
(* transport, the callers that issue read_single() and send_command() on   *)
(* it, and the reader's stream arriving in chunks of any size.             *)

Sessions == {"sess"}
Reqs == 1..MaxReqs

SessCatalog == SingleSegs \cup BeatSegs \cup InfoSegs \cup EmptySegs

InitSession ==
    /\ segs \in Scripts(SessCatalog, MaxSessSegs)
    /\ stream = StreamOf(segs)
    /\ cuts = Cuts(segs)
    /\ fed = [s \in Sessions |-> 0]
    /\ response_buffer = [s \in Sessions |-> <<>>]
    /\ current_callback = [s \in Sessions |-> Unset]
    /\ delivered = [s \in Sessions |-> <<>>]
    /\ sink_raised = [s \in Sessions |-> FALSE]
    /\ is_connected = [s \in Sessions |-> FALSE]
    /\ written = [s \in Sessions |-> 0]
    /\ rpc = [r \in Reqs |-> "idle"]
    /\ future = [r \in Reqs |-> "none"]
    /\ fresult = [r \in Reqs |-> <<>>]
    /\ retval = [r \in Reqs |-> "none"]
    /\ issued_at = [r \in Reqs |-> 0]
    /\ NoSweep

\* AsyncR200Interrogator.connect, the serial port opening
Connect(s) ==
    /\ ~is_connected[s]
    /\ is_connected' = [is_connected EXCEPT ![s] = TRUE]
    /\ UNCHANGED <<segs, stream, cuts, fed, response_buffer, current_callback,
                   delivered, sink_raised, written>>
    /\ UNCHANGED reqVars
    /\ UNCHANGED sweepVars

\* AsyncR200Interrogator.disconnect
Disconnect(s) ==
    /\ is_connected[s]
    /\ is_connected' = [is_connected EXCEPT ![s] = FALSE]
    /\ UNCHANGED <<segs, stream, cuts, fed, response_buffer, current_callback,
                   delivered, sink_raised, written>>
    /\ UNCHANGED reqVars
    /\ UNCHANGED sweepVars

\* a send_command that registers the callback before it looks at the
\* transport
send_command_registers_first(s, response_callback) ==
    IF ~is_connected[s]
    THEN [raised |-> TRUE, callback |-> response_callback, written |-> written[s]]
    ELSE [raised |-> FALSE, callback |-> response_callback, written |-> written[s] + 1]

\* what send_command(cmd_bytes, response_callback) does to the session:
\* it raises when the transport is not connected, else it registers the
\* callback, whatever was registered, and writes the command
send_command(s, response_callback) ==
    IF ~is_connected[s]
    THEN [raised |-> TRUE, callback |-> current_callback[s], written |-> written[s]]
    ELSE [raised |-> FALSE, callback |-> response_callback, written |-> written[s] + 1]

\* read_single() up to its first suspension, the wait on result_future
ReadSingle(s, r) ==
    /\ rpc[r] = "idle"
    /\ \A q \in Reqs : q < r => rpc[q] # "idle"
    /\ LET sc == send_command(s, ReqCb(r))
       IN  /\ current_callback' = [current_callback EXCEPT ![s] = sc.callback]
           /\ written' = [written EXCEPT ![s] = sc.written]
           /\ rpc' = [rpc EXCEPT ![r] = IF sc.raised THEN "raised" ELSE "awaiting"]
           /\ future' = [future EXCEPT ![r] = "pending"]
           /\ issued_at' = [issued_at EXCEPT ![r] = fed[s]]
    /\ UNCHANGED <<segs, stream, cuts, fed, response_buffer, delivered, sink_raised,
                   is_connected, fresult, retval>>
    /\ UNCHANGED sweepVars

\* send_command(cmd) without a response callback, on a connected session
SendCommand(s) ==
    /\ written[s] < MaxReqs + 1
    /\ LET sc == send_command(s, NoneCb)
       IN  /\ ~sc.raised
           /\ current_callback' = [current_callback EXCEPT ![s] = sc.callback]
           /\ written' = [written EXCEPT ![s] = sc.written]
    /\ UNCHANGED <<segs, stream, cuts, fed, response_buffer, delivered, sink_raised,
                   is_connected>>
    /\ UNCHANGED reqVars
    /\ UNCHANGED sweepVars

\* a closure that sets the result without asking whether the future is done
callback_unguarded(r, response) == [future |-> "result", fresult |-> response]

\* the closure read_single registers: it resolves its future once
callback(r, response) ==
    IF future[r] = "pending"
    THEN [future |-> "result", fresult |-> response]
    ELSE [future |-> future[r], fresult |-> fresult[r]]

\* a chunk arrives on the session: the data sink runs, and the response it
\* emits, if any, is passed to the registered callback
SessionDataReceived(s, n) ==
    /\ is_connected[s]
    /\ n \in ChunkSizes(s)
    /\ LET data == SubSeq(stream, fed[s] + 1, fed[s] + n)
           h == handle_data_received(response_buffer[s], current_callback[s], data)
           cb == current_callback[s]
           r == IF Len(cb) = 2 THEN cb[2] ELSE 0
       IN  /\ fed' = [fed EXCEPT ![s] = @ + n]
           /\ response_buffer' = [response_buffer EXCEPT ![s] = h.buffer]
           /\ sink_raised' = [sink_raised EXCEPT ![s] = h.raised]
           /\ delivered' = [delivered EXCEPT ![s] = @ \o h.calls]
           /\ IF h.calls # <<>> /\ r \in Reqs
              THEN /\ future' = [future EXCEPT ![r] = callback(r, h.calls[1]).future]
                   /\ fresult' = [fresult EXCEPT ![r] = callback(r, h.calls[1]).fresult]
              ELSE UNCHANGED <<future, fresult>>
    /\ UNCHANGED <<segs, stream, cuts, current_callback, is_connected, written,
                   rpc, retval, issued_at>>
    /\ UNCHANGED sweepVars

\* a read_single that lets the asyncio.TimeoutError of wait_for escape
TimeoutEscapes(r) ==
    /\ rpc[r] = "awaiting"
    /\ future[r] = "pending"
    /\ future' = [future EXCEPT ![r] = "cancelled"]
    /\ rpc' = [rpc EXCEPT ![r] = "raised"]
    /\ UNCHANGED sessVars
    /\ UNCHANGED <<fresult, retval, issued_at>>
    /\ UNCHANGED sweepVars

\* asyncio.wait_for(result_future, timeout=2.0) expires: the future is
\* cancelled and read_single returns None
Timeout(r) ==
    /\ rpc[r] = "awaiting"
    /\ future[r] = "pending"
    /\ future' = [future EXCEPT ![r] = "cancelled"]
    /\ rpc' = [rpc EXCEPT ![r] = "returned"]
    /\ retval' = [retval EXCEPT ![r] = "None"]
    /\ UNCHANGED sessVars
    /\ UNCHANGED <<fresult, issued_at>>
    /\ UNCHANGED sweepVars

\* the future has a result: read_single resumes and returns it
Resume(r) ==
    /\ rpc[r] = "awaiting"
    /\ future[r] = "result"
    /\ rpc' = [rpc EXCEPT ![r] = "returned"]
    /\ retval' = [retval EXCEPT ![r] = fresult[r]]
    /\ UNCHANGED sessVars
    /\ UNCHANGED <<future, fresult, issued_at>>
    /\ UNCHANGED sweepVars

NextSession ==
    \/ \E s \in Sessions : Connect(s)
    \/ \E s \in Sessions : Disconnect(s)
    \/ \E s \in Sessions : \E r \in Reqs : ReadSingle(s, r)
    \/ \E s \in Sessions : SendCommand(s)
    \/ \E s \in Sessions : \E n \in 1..Len(stream) : SessionDataReceived(s, n)
    \/ \E r \in Reqs : Timeout(r)
    \/ \E r \in Reqs : Resume(r)

SpecSession == InitSession /\ [][NextSession]_vars

\* the read_single calls whose request is unresolved
Pending == {r \in DOMAIN future : rpc[r] = "awaiting" /\ future[r] = "pending"}

\* C6: a session has at most one pending request at any instant, and while
\* a read_single is unresolved its callback stays the registered response
\* callback: no later send_command or read_single replaces it.
C6_SinglePendingRequest ==
    /\ Cardinality(Pending) <= 1
    /\ \A r \in Pending : current_callback["sess"] = ReqCb(r)

-----------------------------------------------------------------------------
(* Checksums of the CF600 and HYB506 families *)

RECURSIVE Xor(_, _)
Xor(a, b) ==
    IF a = 0 THEN b
    ELSE IF b = 0 THEN a
    ELSE ((a + b) % 2) + 2 * Xor(a \div 2, b \div 2)

\* a chafon.crc that XORs 0x8408 before it shifts
RECURSIVE crc_rounds_xor_first(_, _)
crc_rounds_xor_first(uiCrcValue, j) ==
    IF j = 0 THEN uiCrcValue
    ELSE IF uiCrcValue % 2 = 1
         THEN crc_rounds_xor_first(Xor(uiCrcValue, 33800) \div 2, j - 1)
         ELSE crc_rounds_xor_first(uiCrcValue \div 2, j - 1)

\* chafon.crc: one of the 8 rounds per byte (shift, then XOR 0x8408)
RECURSIVE crc_rounds(_, _)
crc_rounds(uiCrcValue, j) ==
    IF j = 0 THEN uiCrcValue
    ELSE IF uiCrcValue % 2 = 1
         THEN crc_rounds(Xor(uiCrcValue \div 2, 33800), j - 1)
         ELSE crc_rounds(uiCrcValue \div 2, j - 1)

RECURSIVE crc_from(_, _)
crc_from(uiCrcValue, inbytes) ==
    IF inbytes = <<>> THEN uiCrcValue
    ELSE crc_from(crc_rounds(Xor(uiCrcValue, Head(inbytes)), 8), Tail(inbytes))

crc(inbytes) == crc_from(65535, inbytes)

\* a hyb506.crc16 that XORs 0x10810 in every round
RECURSIVE crc16_rounds_always(_, _)
crc16_rounds_always(c, j) ==
    IF j = 0 THEN c
    ELSE crc16_rounds_always(Xor(c, 67600) \div 2, j - 1)

\* hyb506.crc16: one of the 8 rounds per byte (XOR 0x10810 if the low bit
\* is set, then shift)
RECURSIVE crc16_rounds(_, _)
crc16_rounds(c, j) ==
    IF j = 0 THEN c
    ELSE IF c % 2 = 1
         THEN crc16_rounds(Xor(c, 67600) \div 2, j - 1)
         ELSE crc16_rounds(c \div 2, j - 1)

RECURSIVE crc16_from(_, _)
crc16_from(c, data) ==
    IF data = <<>> THEN c
    ELSE crc16_from(crc16_rounds(Xor(c, Head(data)), 8), Tail(data))

crc16(data) == crc16_from(65535, data)

\* hyb506.generate_command
generate_command(cmd_byte, payload, reader_addr) ==
    LET size == 4 + Len(payload)
        body == <<size, reader_addr, cmd_byte>> \o payload
        c == crc16(body)
    IN  body \o <<c % 256, (c \div 256) % 256>>

-----------------------------------------------------------------------------
(* The detectors of device_detection.py *)

Registry == <<"R200 (AADD)", "R200 (BB7E)", "CF600", "HYB506">>

\* the i-th registered detector
DetectorAt(i) == Registry[((i - 1) % Len(Registry)) + 1]

Last(rd) == rd[Len(rd)]

\* response_data[0:-2]
DropLast2(rd) == SubSeq(rd, 1, Len(rd) - 2)

\* R200DetectorAADD / R200DetectorBB7E .validate_response
validate_r200(rd, start, stop) ==
    IF Len(rd) < 3 THEN FALSE
    ELSE /\ rd[1] = start
         /\ Len(rd) > 6
         /\ rd[2] = 1
         /\ rd[3] = 3
         /\ Last(rd) = stop

\* CF600Detector.validate_response
validate_cf600(rd) ==
    IF Len(rd) < 4 THEN FALSE
    ELSE /\ rd[1] = 207
         /\ crc(DropLast2(rd)) = rd[Len(rd) - 1] * 256 + Last(rd)

\* HYB506Detector.validate_response
validate_hyb506(rd) ==
    IF Len(rd) < 4 THEN FALSE
    ELSE crc16(DropLast2(rd)) = Last(rd) * 256 + rd[Len(rd) - 1]

validate_response(det, rd) ==
    CASE det = "R200 (AADD)" -> validate_r200(rd, 170, 221)
      [] det = "R200 (BB7E)" -> validate_r200(rd, 187, 126)
      [] det = "CF600"       -> validate_cf600(rd)
      [] det = "HYB506"      -> validate_hyb506(rd)

\* bytes.decode('ascii', errors='ignore'): the character codes that remain
AsciiIgnore(bs) == SelectSeq(bs, LAMBDA b : b < 128)

\* the ASCII characters str.strip() removes
Whitespace == {9, 10, 11, 12, 13, 28, 29, 30, 31, 32}

RECURSIVE StripLeft(_)
StripLeft(t) ==
    IF t = <<>> THEN t
    ELSE IF Head(t) \in Whitespace THEN StripLeft(Tail(t)) ELSE t

RECURSIVE StripRight(_)
StripRight(t) ==
    IF t = <<>> THEN t
    ELSE IF Last(t) \in Whitespace THEN StripRight(SubSeq(t, 1, Len(t) - 1)) ELSE t

\* str.strip()
Strip(t) == StripRight(StripLeft(t))

\* the text "R200 Reader"
R200ReaderText == <<82, 50, 48, 48, 32, 82, 101, 97, 100, 101, 114>>

\* a get_device_info that slices the text one byte early
get_device_info_r200_early(rd) ==
    IF Len(rd) >= 22
    THEN LET ascii_text == Strip(AsciiIgnore(SubSeq(rd, 6, 20)))
         IN  IF ascii_text # <<>> THEN ascii_text ELSE R200ReaderText
    ELSE R200ReaderText

\* R200DetectorAADD.get_device_info, a text as its character codes
get_device_info_r200(rd) ==
    IF Len(rd) >= 22
    THEN LET ascii_text == Strip(AsciiIgnore(SubSeq(rd, 7, 21)))
         IN  IF ascii_text # <<>> THEN ascii_text ELSE R200ReaderText
    ELSE R200ReaderText

\* get_device_info: the text, or the bytes the text is formatted from
get_device_info(det, rd) ==
    CASE det \in {"R200 (AADD)", "R200 (BB7E)"} -> get_device_info_r200(rd)
      [] det = "CF600"  -> SubSeq(rd, 1, Min(8, Len(rd)))
      [] det = "HYB506" -> <<rd[1]>>

DetectedReader(port, det, rd) ==
    [port |-> port, reader_type |-> det, device_info |-> get_device_info(det, rd)]

\* chafon.rfm_module_int
rfm_module_int == <<207, 255, 0, 80, 0>>

\* a CF600 command with the checksum appended low byte first
get_detection_command_low_first(det) ==
    CASE det = "R200 (AADD)" -> R200CommandBytes(3, <<0>>)
      [] det = "R200 (BB7E)" -> PatchFlavor("BB7E", R200CommandBytes(3, <<0>>))
      [] det = "CF600"       -> rfm_module_int
                                  \o <<crc(rfm_module_int) % 256,
                                       (crc(rfm_module_int) \div 256) % 256>>
      [] det = "HYB506"      -> generate_command(33, <<>>, 0)

\* _get_detection_command of the four detectors
get_detection_command(det) ==
    CASE det = "R200 (AADD)" -> R200CommandBytes(3, <<0>>)
      [] det = "R200 (BB7E)" -> PatchFlavor("BB7E", R200CommandBytes(3, <<0>>))
      [] det = "CF600"       -> rfm_module_int
                                  \o <<(crc(rfm_module_int) \div 256) % 256,
                                       crc(rfm_module_int) % 256>>
      [] det = "HYB506"      -> generate_command(33, <<>>, 0)

\* the answer a reader of the detector's family gives to the probe command
ValidReply(det) ==
    CASE det = "R200 (AADD)" -> ReaderFrame(170, 1, 3, <<0>> \o ModuleInfoText, 221)
      [] det = "R200 (BB7E)" -> ReaderFrame(187, 1, 3, <<0>> \o ModuleInfoText, 126)
      [] det = "CF600"       -> <<207, 1, 0, 80, 1, 0>>
                                  \o <<crc(<<207, 1, 0, 80, 1, 0>>) \div 256,
                                       crc(<<207, 1, 0, 80, 1, 0>>) % 256>>
      [] det = "HYB506"      -> generate_command(33, <<0>>, 0)

\* where a reply that comes in two chunks is split
SplitReplyAt == 4

\* bytes of a device that speaks none of the protocols
Unrelated == <<13, 10>>

\* the reply with its integrity value off by one: the checksum byte before
\* the stop marker of an R200 frame, the low CRC byte of the other families
CorruptIntegrity(det, v) ==
    IF det \in {"R200 (AADD)", "R200 (BB7E)"}
    THEN [v EXCEPT ![Len(v) - 1] = (@ + 1) % 256]
    ELSE [v EXCEPT ![Len(v)] = (@ + 1) % 256]

\* what the device on the port sends after the command: nothing, the valid
\* reply in one chunk, an unrelated answer, a reply damaged on the line, the
\* valid reply in two chunks, the command itself (an echo)
Replies(det) ==
    LET v == ValidReply(det)
    IN  { <<>>, <<v>>, <<Unrelated>>, <<CorruptIntegrity(det, v)>>,
          <<SubSeq(v, 1, SplitReplyAt), SubSeq(v, SplitReplyAt + 1, Len(v))>>,
          <<get_detection_command(det)>> }

-----------------------------------------------------------------------------
(* SerialTransport, as the probe that owns it sees it.  A probe record p   *)
(* carries its transport: endpoint ("none", "open", "closed": the serial   *)
(* port), handle (self.transport is set), is_connected, data_callback.     *)

\* disconnect that clears the flag and leaves the port to the garbage collector
disconnect_flag_only(p) ==
    IF p.handle
    THEN [p EXCEPT !.is_connected = FALSE]
    ELSE p

\* SerialTransport.disconnect
disconnect(p) ==
    IF p.handle
    THEN [p EXCEPT !.endpoint = "closed", !.is_connected = FALSE]
    ELSE p

\* SerialTransportProtocol.connection_made
connection_made(p) == [p EXCEPT !.handle = TRUE, !.is_connected = TRUE]

\* SerialTransportProtocol.connection_lost; the serial port is closed
connection_lost(p) ==
    [p EXCEPT !.is_connected = FALSE, !.endpoint = "closed", !.lost = TRUE]

\* a write that tests only whether self.transport was ever set
write_raises_handle_only(p) == ~p.handle

\* SerialTransport.write raises unless connected
write_raises(p) == ~p.is_connected \/ ~p.handle

-----------------------------------------------------------------------------
(* One sweep of ReaderDetectionManager.detect_all_readers_async *)

\* probes one sweep may create
MaxProbes == 3

NoResult == <<"pending">>
ResultNone == <<"None">>
ResultException == <<"Exception">>
ResultReader(r) == <<"reader", r>>

NewProbe ==
    [pc |-> "created", exit |-> "", endpoint |-> "none", handle |-> FALSE,
     is_connected |-> FALSE, data_callback |-> FALSE, response_data |-> <<>>,
     response_received |-> FALSE, reply |-> <<>>, arrived |-> 0,
     handed |-> <<>>, result |-> NoResult, lost |-> FALSE, sent |-> <<>>]

\* a reader left in self.detected_readers by an earlier sweep
StaleReader == [port |-> 0, reader_type |-> "CF600", device_info |-> <<>>]

NoSession ==
    /\ segs = <<>>
    /\ stream = <<>>
    /\ cuts = {}
    /\ fed = <<>>
    /\ response_buffer = <<>>
    /\ current_callback = <<>>
    /\ delivered = <<>>
    /\ sink_raised = <<>>
    /\ is_connected = <<>>
    /\ written = <<>>
    /\ NoRequests

\* probes of a sweep whose termination is checked
MaxFairProbes == 2

SweepOf(max) ==
    /\ \E n \in 0..max : \E m \in 0..max :
          /\ n * m <= max
          /\ plausible_ports = [i \in 1..n |-> i]
          /\ detectors = [i \in 1..m |-> DetectorAt(i)]
    /\ sweep_pc = "idle"
    /\ detection_tasks = <<>>
    /\ detected_readers \in {<<>>, <<StaleReader>>}
    /\ probes = <<>>
    /\ calls = <<>>
    /\ transport = <<>>
    /\ NoSession

InitSweep == SweepOf(MaxProbes)

InitSweepFair == SweepOf(MaxFairProbes)

\* the nested loops over plausible_ports and self.detectors
TaskList(ports, dets) ==
    [k \in 1..(Len(ports) * Len(dets)) |->
        [port |-> ports[((k - 1) \div Len(dets)) + 1],
         det  |-> dets[((k - 1) % Len(dets)) + 1]]]

\* detect_all_readers_async up to the gather
SweepStart ==
    /\ sweep_pc = "idle"
    /\ detected_readers' = <<>>
    /\ IF plausible_ports = <<>>
       THEN /\ sweep_pc' = "done"
            /\ UNCHANGED <<detection_tasks, probes>>
       ELSE /\ detection_tasks' = TaskList(plausible_ports, detectors)
            /\ probes' = [k \in 1..Len(detection_tasks') |-> NewProbe]
            /\ sweep_pc' = IF detection_tasks' = <<>> THEN "done" ELSE "gathering"
    /\ UNCHANGED <<plausible_ports, detectors, calls, transport>>
    /\ UNCHANGED <<sessVars, reqVars>>

\* the probe returns: the finally clause of _send_detection_command has
\* run, and _detect_single_reader hands its result to gather
Exit(p, how, handed, result) ==
    [disconnect(p) EXCEPT !.pc = "returned", !.exit = how, !.handed = handed,
                          !.result = result, !.response_data = <<>>,
                          !.response_received = FALSE, !.data_callback = FALSE]

SetProbe(i, p) ==
    /\ probes' = [probes EXCEPT ![i] = p]
    /\ UNCHANGED <<plausible_ports, detectors, sweep_pc, detection_tasks,
                   detected_readers, calls, transport>>
    /\ UNCHANGED <<sessVars, reqVars>>

\* the task starts: _get_detection_command, SerialTransport(port), and
\* connect() up to its wait for connection_made.  The detector's hook may
\* raise, and so may get_reader_type in the except clause that reports it;
\* the port may fail to open.
ProbeStart(i) ==
    /\ sweep_pc = "gathering"
    /\ probes[i].pc = "created"
    /\ \A j \in 1..(i - 1) : probes[j].pc # "created"
    /\ \/ SetProbe(i, Exit(probes[i], "hook", <<>>, ResultNone))
       \/ SetProbe(i, Exit(probes[i], "hook", <<>>, ResultException))
       \/ SetProbe(i, Exit(probes[i], "connect", <<>>, ResultNone))
       \/ SetProbe(i, [probes[i] EXCEPT !.pc = "connecting", !.endpoint = "open"])

\* the event loop calls connection_made
ConnectionMade(i) ==
    /\ sweep_pc = "gathering"
    /\ probes[i].pc = "connecting"
    /\ ~probes[i].handle
    /\ SetProbe(i, connection_made(probes[i]))

\* the port drops while the probe has it open
ConnectionLost(i) ==
    /\ sweep_pc = "gathering"
    /\ probes[i].pc \in {"connecting", "waiting"}
    /\ probes[i].handle
    /\ probes[i].endpoint = "open"
    /\ SetProbe(i, connection_lost(probes[i]))

\* a probe that writes the command and waits without having registered
\* its data callback
ConnectReturnUnregistered(i) ==
    /\ sweep_pc = "gathering"
    /\ probes[i].pc = "connecting"
    /\ probes[i].handle
    /\ IF ~probes[i].is_connected
       THEN SetProbe(i, Exit(probes[i], "connect", <<>>, ResultNone))
       ELSE IF write_raises(probes[i])
       THEN SetProbe(i, Exit(probes[i], "write", <<>>, ResultNone))
       ELSE \/ SetProbe(i, Exit(probes[i], "write", <<>>, ResultNone))
            \/ \E r \in Replies(detection_tasks[i].det) :
                  SetProbe(i, [probes[i] EXCEPT !.pc = "waiting",
                                                !.sent = <<get_detection_command(
                                                             detection_tasks[i].det)>>,
                                                !.reply = r])

\* connect() returns is_connected; on True the probe registers its data
\* callback, writes the command and waits for response_received
ConnectReturn(i) ==
    /\ sweep_pc = "gathering"
    /\ probes[i].pc = "connecting"
    /\ probes[i].handle
    /\ IF ~probes[i].is_connected
       THEN SetProbe(i, Exit(probes[i], "connect", <<>>, ResultNone))
       ELSE IF write_raises(probes[i])
       THEN SetProbe(i, Exit(probes[i], "write", <<>>, ResultNone))
       ELSE \/ SetProbe(i, Exit(probes[i], "write", <<>>, ResultNone))
            \/ \E r \in Replies(detection_tasks[i].det) :
                  SetProbe(i, [probes[i] EXCEPT !.pc = "waiting",
                                                !.data_callback = TRUE,
                                                !.sent = <<get_detection_command(
                                                             detection_tasks[i].det)>>,
                                                !.reply = r])

\* data_callback of _send_detection_command
data_callback(p, data) ==
    [p EXCEPT !.response_data = @ \o data, !.response_received = TRUE]

\* SerialTransportProtocol.data_received with the next chunk of the reply
ChunkArrives(i) ==
    /\ sweep_pc = "gathering"
    /\ probes[i].pc = "waiting"
    /\ probes[i].endpoint = "open"
    /\ probes[i].arrived < Len(probes[i].reply)
    /\ LET p == [probes[i] EXCEPT !.arrived = @ + 1]
           data == probes[i].reply[probes[i].arrived + 1]
       IN  SetProbe(i, IF p.data_callback THEN data_callback(p, data) ELSE p)

\* a _detect_single_reader that takes any response for a detection
detect_result_unvalidated(task, response_data) ==
    IF response_data # <<>>
    THEN ResultReader(DetectedReader(task.port, task.det, response_data))
    ELSE ResultNone

\* _detect_single_reader once _send_detection_command returned response_data
detect_result(task, response_data) ==
    IF response_data # <<>> /\ validate_response(task.det, response_data)
    THEN ResultReader(DetectedReader(task.port, task.det, response_data))
    ELSE ResultNone

\* the wait on response_received ends: bytes(response_data) is returned
Wake(i) ==
    /\ sweep_pc = "gathering"
    /\ probes[i].pc = "waiting"
    /\ probes[i].response_received
    /\ SetProbe(i, Exit(probes[i], "response", probes[i].response_data,
                        detect_result(detection_tasks[i], probes[i].response_data)))

\* a wait on response_received with no timeout: the probe stays waiting
WaitForever(i) ==
    /\ sweep_pc = "gathering"
    /\ probes[i].pc = "waiting"
    /\ ~probes[i].response_received
    /\ UNCHANGED vars

\* a deadline whose asyncio.TimeoutError is not caught by the probe
DeadlineEscapes(i) ==
    /\ sweep_pc = "gathering"
    /\ probes[i].pc = "waiting"
    /\ ~probes[i].response_received
    /\ SetProbe(i, Exit(probes[i], "timeout", <<>>, ResultException))

\* asyncio.TimeoutError after self.timeout
Deadline(i) ==
    /\ sweep_pc = "gathering"
    /\ probes[i].pc = "waiting"
    /\ ~probes[i].response_received
    /\ SetProbe(i, Exit(probes[i], "timeout", <<>>, ResultNone))

\* asyncio.gather(*detection_tasks) without return_exceptions
gather_propagating(ps) ==
    [raised |-> \E k \in 1..Len(ps) : ps[k].result = ResultException,
     results |-> [k \in 1..Len(ps) |-> ps[k].result]]

\* asyncio.gather(*detection_tasks, return_exceptions=True)
gather(ps) ==
    [raised |-> FALSE, results |-> [k \in 1..Len(ps) |-> ps[k].result]]

\* the loop over results: DetectedReaders are appended, exceptions printed
RECURSIVE collect(_, _)
collect(readers, results) ==
    IF results = <<>> THEN readers
    ELSE collect(IF Head(results)[1] = "reader"
                 THEN Append(readers, Head(results)[2])
                 ELSE readers,
                 Tail(results))

\* every task is done: gather returns and the sweep returns its list
SweepCollect ==
    /\ sweep_pc = "gathering"
    /\ \A i \in 1..Len(probes) : probes[i].pc = "returned"
    /\ LET g == gather(probes)
       IN  IF g.raised
           THEN /\ sweep_pc' = "raised"
                /\ UNCHANGED detected_readers
           ELSE /\ sweep_pc' = "done"
                /\ detected_readers' = collect(detected_readers, g.results)
    /\ UNCHANGED <<plausible_ports, detectors, detection_tasks, probes, calls,
                   transport>>
    /\ UNCHANGED <<sessVars, reqVars>>

ProgramStep ==
    \/ SweepStart
    \/ \E i \in 1..Len(probes) : ProbeStart(i)
    \/ \E i \in 1..Len(probes) : ConnectionMade(i)
    \/ \E i \in 1..Len(probes) : ConnectReturn(i)
    \/ \E i \in 1..Len(probes) : Wake(i)
    \/ \E i \in 1..Len(probes) : Deadline(i)
    \/ SweepCollect

PortStep ==
    \/ \E i \in 1..Len(probes) : ConnectionLost(i)
    \/ \E i \in 1..Len(probes) : ChunkArrives(i)

NextSweep == ProgramStep \/ PortStep

SpecSweep == InitSweep /\ [][NextSweep]_vars

\* the event loop runs every ready task and callback and fires every timer
SpecSweepFair == InitSweepFair /\ [][NextSweep]_vars /\ WF_vars(ProgramStep)

-----------------------------------------------------------------------------
(* Claims about the sweep *)

ProbeIds == 1..Len(probes)

\* C3: at no time during a sweep do two probes have the same port open;
\* probes for different detectors on one port run one after another.
C3_OnePortOneProbe ==
    \A i \in ProbeIds : \A j \in ProbeIds :
        (i # j /\ detection_tasks[i].port = detection_tasks[j].port)
            => ~(probes[i].endpoint = "open" /\ probes[j].endpoint = "open")

\* C7: a reply split over two chunks is handed to validation as the
\* concatenation of both chunks, never as the first chunk alone (the port
\* stayed up, so the second chunk was on its way).
C7_SplitReplyValidatedWhole ==
    \A i \in ProbeIds :
        (probes[i].pc = "returned" /\ probes[i].exit = "response"
            /\ Len(probes[i].reply) = 2 /\ ~probes[i].lost)
            => probes[i].handed = Concat(probes[i].reply)

\* C8: on every exit path the port a probe opened is closed before the
\* probe returns, so once the sweep has returned no transport it opened is
\* open or connected.
C8_ClosedOnEveryExit ==
    /\ \A i \in ProbeIds :
          probes[i].pc = "returned"
              => probes[i].endpoint # "open" /\ ~probes[i].is_connected
    /\ sweep_pc \in {"done", "raised"}
          => \A i \in ProbeIds :
                probes[i].endpoint # "open" /\ ~probes[i].is_connected

\* a finished sweep whose probes left by a write failure, by the deadline
\* and by a response, each having had its port open
C8_Witness ==
    /\ sweep_pc = "done"
    /\ \E i \in ProbeIds : probes[i].exit = "write" /\ probes[i].endpoint = "closed"
                              /\ ~probes[i].lost
    /\ \E i \in ProbeIds : probes[i].exit = "timeout" /\ probes[i].endpoint = "closed"
                              /\ ~probes[i].lost
    /\ \E i \in ProbeIds : probes[i].exit = "response" /\ probes[i].endpoint = "closed"
                              /\ ~probes[i].lost

\* the probe got a response that its detector accepts
Succeeded(i) ==
    /\ probes[i].exit = "response"
    /\ probes[i].handed # <<>>
    /\ validate_response(detection_tasks[i].det, probes[i].handed)

RECURSIVE ReadersOfSucceeded(_)
ReadersOfSucceeded(n) ==
    IF n = 0 THEN <<>>
    ELSE LET rest == ReadersOfSucceeded(n - 1)
         IN  IF Succeeded(n)
             THEN Append(rest, DetectedReader(detection_tasks[n].port,
                                              detection_tasks[n].det,
                                              probes[n].handed))
             ELSE rest

\* C9: when a probe raises or times out the sweep still returns without
\* raising, and its result is exactly the readers of the probes that
\* succeeded.
C9_FailuresIsolated ==
    /\ sweep_pc # "raised"
    /\ sweep_pc = "done" => detected_readers = ReadersOfSucceeded(Len(probes))

\* a sweep that returned although one probe raised and one timed out, with
\* a reader found by a third
C9_Witness ==
    /\ sweep_pc = "done"
    /\ \E i \in ProbeIds : probes[i].result = ResultException
    /\ \E i \in ProbeIds : probes[i].exit = "timeout"
    /\ \E i \in ProbeIds : Succeeded(i)
    /\ detected_readers # <<>>

\* one probe per (port, detector) pair
OneProbePerPair ==
    /\ Len(probes) <= Len(plausible_ports) * Len(detectors)
    /\ Len(detection_tasks) = Len(probes)
    /\ \A i \in ProbeIds : \A j \in ProbeIds :
          i # j => detection_tasks[i] # detection_tasks[j]

\* C10: a sweep over N ports and M detectors starts at most N*M probes, one
\* per pair, and the sweep always eventually returns.
C10_BoundedAndReturns ==
    /\ []OneProbePerPair
    /\ (sweep_pc # "idle") ~> (sweep_pc = "done")

\* a sweep of N*M > 1 probes that returned after a probe hit its deadline
C10_Witness ==
    /\ sweep_pc = "done"
    /\ Len(probes) = Len(plausible_ports) * Len(detectors)
    /\ Len(probes) > 1
    /\ \E i \in ProbeIds : probes[i].exit = "timeout" /\ probes[i].reply = <<>>

\* the readers in the sweep's list that name the pair of probe i
ReadersOf(i) ==
    { k \in 1..Len(detected_readers) :
        /\ detected_readers[k].port = detection_tasks[i].port
        /\ detected_readers[k].reader_type = detection_tasks[i].det }

\* C11: a probe that connected and wrote its command but got no byte before
\* the deadline resolves as non-detection: it returns None, no exception
\* escapes, its port is closed and it contributes no DetectedReader.
C11_SilentProbeIsNonDetection ==
    \A i \in ProbeIds :
        probes[i].exit = "timeout"
            => /\ probes[i].result = ResultNone
               /\ probes[i].handed = <<>>
               /\ probes[i].endpoint = "closed"
               /\ sweep_pc = "done" => ReadersOf(i) = {}

\* a finished sweep with a probe that wrote to a silent port and a reader
\* found by another probe
C11_Witness ==
    /\ sweep_pc = "done"
    /\ detected_readers # <<>>
    /\ \E i \in ProbeIds :
          /\ probes[i].exit = "timeout"
          /\ probes[i].reply = <<>>
          /\ ~probes[i].lost

-----------------------------------------------------------------------------
(* Claims about requests on the session *)

\* a read_single whose deadline passed has returned None and is not pending
TimedOutResolved ==
    \A r \in DOMAIN future :
        future[r] = "cancelled"
            => rpc[r] = "returned" /\ retval[r] = "None" /\ r \notin Pending

\* with an earlier read_single timed out, the response the sink emits next
\* completes the read_single that is pending now
LaterRequestCompletes ==
    \A r \in DOMAIN future :
        (/\ r \in Pending
         /\ current_callback["sess"] = ReqCb(r)
         /\ \E q \in DOMAIN future : q # r /\ future[q] = "cancelled"
         /\ delivered'["sess"] # delivered["sess"])
            => /\ future'[r] = "result"
               /\ fresult'[r] = delivered'["sess"][Len(delivered'["sess"])]

SegEnd(j) == Len(StreamOf(SubSeq(segs, 1, j)))
SegStart(j) == SegEnd(j - 1)

\* segment j arrived completely after read_single r wrote its command
ArrivedSince(r, j) ==
    /\ SegStart(j) >= issued_at[r]
    /\ SegEnd(j) <= fed["sess"]

\* C13: while a request is pending, the first validated inbound frame that
\* is no heartbeat completes it, whatever its command type and id: no
\* request is left pending after such a frame has arrived.
C13_AnyReplyCompletes ==
    \A r \in Pending :
        current_callback["sess"] = ReqCb(r)
            => ~\E j \in 1..Len(segs) : segs[j].k # "beat" /\ ArrivedSince(r, j)

\* the EPCs of the single-read frames that have arrived completely
ArrivedEPCs ==
    { <<segs[j].e>> : j \in {i \in 1..Len(segs) :
                                segs[i].k = "single" /\ SegEnd(i) <= fed["sess"]} }

\* C14: a heartbeat frame never completes a pending request and is never
\* passed to the response callback, whatever precedes or follows it: what
\* the callback gets and what a request completes with is the EPC of a
\* single-read frame that arrived, and a stream of heartbeats yields
\* nothing.
C14_HeartbeatDiscarded ==
    /\ \A k \in 1..Len(delivered["sess"]) : delivered["sess"][k] \in ArrivedEPCs
    /\ Len(delivered["sess"]) <= Cardinality({j \in 1..Len(segs) : segs[j].k = "single"})
    /\ \A r \in DOMAIN future : future[r] = "result" => fresult[r] \in ArrivedEPCs
    /\ OnlyKind("beat")
          => delivered["sess"] = <<>> /\ \A r \in DOMAIN future : future[r] # "result"

\* a request that was pending while a heartbeat arrived and that completed
\* with the single-read frame after it
C14_Witness ==
    /\ Len(segs) = 2 /\ segs[1].k = "beat" /\ segs[2].k = "single"
    /\ fed["sess"] = Len(stream)
    /\ rpc[1] = "awaiting" /\ issued_at[1] = 0
    /\ future[1] = "result" /\ fresult[1] = <<segs[2].e>>
    /\ delivered["sess"] = << <<segs[2].e>> >>

-----------------------------------------------------------------------------
(* Claims about the detectors *)

\* the integrity value of a response, as its family defines it
IntegrityOK(det, rd) ==
    CASE det \in {"R200 (AADD)", "R200 (BB7E)"} ->
             /\ Len(rd) >= 3
             /\ rd[Len(rd) - 1] = SumSeq(SubSeq(rd, 2, Len(rd) - 2)) % 256
      [] det = "CF600" ->
             /\ Len(rd) >= 3
             /\ crc(DropLast2(rd)) = rd[Len(rd) - 1] * 256 + Last(rd)
      [] det = "HYB506" ->
             /\ Len(rd) >= 3
             /\ crc16(DropLast2(rd)) = Last(rd) * 256 + rd[Len(rd) - 1]

\* C15: a detector accepts a response only if its integrity value is
\* correct: a probe yields a reader only from a response whose checksum
\* (R200) or trailing CRC (CF600, HYB506) matches.
C15_IntegrityRequired ==
    \A i \in ProbeIds :
        (probes[i].pc = "returned" /\ probes[i].result # ResultNone
            /\ probes[i].result # ResultException)
            => IntegrityOK(detection_tasks[i].det, probes[i].handed)

\* C16: every DetectedReader in a sweep's result comes from a probe of
\* that sweep whose response was non-empty and accepted by its detector's
\* validate_response; a probe that failed to connect, timed out, raised or
\* was rejected contributes nothing.
C16_ReadersOnlyFromAcceptedProbes ==
    sweep_pc = "done"
        => /\ \A k \in 1..Len(detected_readers) :
                 \E i \in ProbeIds :
                    /\ Succeeded(i)
                    /\ detected_readers[k] =
                          DetectedReader(detection_tasks[i].port,
                                         detection_tasks[i].det, probes[i].handed)
           /\ \A i \in ProbeIds : ~Succeeded(i) => ReadersOf(i) = {}

\* a finished sweep of three probes: one could not connect, one got a
\* response its validator rejected, one was accepted and is the only reader
C16_Witness ==
    /\ sweep_pc = "done"
    /\ Len(detected_readers) = 1
    /\ \E i \in ProbeIds : probes[i].exit = "connect"
    /\ \E i \in ProbeIds : probes[i].exit = "response" /\ probes[i].handed # <<>>
                              /\ ~Succeeded(i)
    /\ \E i \in ProbeIds : Succeeded(i) /\ ReadersOf(i) # {}

-----------------------------------------------------------------------------
(* Overlapping sweeps: callers that call detect_all_readers_async on one   *)
(* ReaderDetectionManager while an earlier call may still be gathering.    *)
(* A call's frame holds its position, its tasks with their results, and    *)
(* what the list it returned held when it returned; the list itself is     *)
(* self.detected_readers, which every call clears, extends and returns.    *)

\* calls made on the manager
MaxCalls == 2
\* probes of one call
MaxOverlapProbes == 2

Calls == 1..MaxCalls

NewCall == [pc |-> "idle", tasks |-> <<>>, probes |-> <<>>, returned |-> <<>>]

InitOverlap ==
    /\ \E n \in 0..MaxOverlapProbes : \E m \in 0..MaxOverlapProbes :
          /\ n * m <= MaxOverlapProbes
          /\ plausible_ports = [i \in 1..n |-> i]
          /\ detectors = [i \in 1..m |-> DetectorAt(i)]
    /\ detected_readers = <<>>
    /\ calls = [c \in Calls |-> NewCall]
    /\ sweep_pc = "none"
    /\ detection_tasks = <<>>
    /\ probes = <<>>
    /\ transport = <<>>
    /\ NoSession

\* what a probe may hand to validation: nothing, or the first chunk of the
\* device's reply
Handed(det) == {<<>>} \cup {r[1] : r \in Replies(det) \ {<<>>}}

\* the results a task may end with
Outcomes(task) ==
    {ResultNone, ResultException}
        \cup {detect_result(task, h) : h \in Handed(task.det)}

\* detect_all_readers_async up to the gather, or to its return when there
\* is nothing to wait for
CallStart(c) ==
    /\ calls[c].pc = "idle"
    /\ \A b \in 1..(c - 1) : calls[b].pc # "idle"
    /\ detected_readers' = <<>>
    /\ LET tasks == IF plausible_ports = <<>> THEN <<>>
                    ELSE TaskList(plausible_ports, detectors)
       IN  calls' = [calls EXCEPT ![c] =
                        [pc |-> IF tasks = <<>> THEN "done" ELSE "gathering",
                         tasks |-> tasks,
                         probes |-> [k \in 1..Len(tasks) |-> [result |-> NoResult]],
                         returned |-> <<>>]]
    /\ UNCHANGED <<plausible_ports, detectors, sweep_pc, detection_tasks, probes,
                   transport>>
    /\ UNCHANGED <<sessVars, reqVars>>

\* one task of the call ends
TaskDone(c, i) ==
    /\ calls[c].pc = "gathering"
    /\ calls[c].probes[i].result = NoResult
    /\ \E res \in Outcomes(calls[c].tasks[i]) :
          calls' = [calls EXCEPT ![c].probes[i].result = res]
    /\ UNCHANGED <<plausible_ports, detectors, sweep_pc, detection_tasks,
                   detected_readers, probes, transport>>
    /\ UNCHANGED <<sessVars, reqVars>>

\* gather returns: the call appends its readers to self.detected_readers
\* and returns that list
CallReturn(c) ==
    /\ calls[c].pc = "gathering"
    /\ \A i \in 1..Len(calls[c].probes) : calls[c].probes[i].result # NoResult
    /\ LET g == gather(calls[c].probes)
       IN  /\ ~g.raised
           /\ detected_readers' = collect(detected_readers, g.results)
           /\ calls' = [calls EXCEPT ![c].pc = "done",
                                     ![c].returned = detected_readers']
    /\ UNCHANGED <<plausible_ports, detectors, sweep_pc, detection_tasks, probes,
                   transport>>
    /\ UNCHANGED <<sessVars, reqVars>>

NextOverlap ==
    \/ \E c \in Calls : CallStart(c)
    \/ \E c \in Calls : \E i \in 1..Len(calls[c].probes) : TaskDone(c, i)
    \/ \E c \in Calls : CallReturn(c)

SpecOverlap == InitOverlap /\ [][NextOverlap]_vars

\* the readers the tasks of call c found
OwnReaders(c) ==
    collect(<<>>, [k \in 1..Len(calls[c].probes) |-> calls[c].probes[k].result])

\* C17: the result of a sweep holds only readers detected during that
\* sweep, and when two calls overlap neither call's returned result is
\* cleared or extended by the other: the list a call returned still holds
\* what it held on return, the readers of the call's own probes.
C17_SweepScopedResult ==
    \A c \in DOMAIN calls :
        calls[c].pc = "done"
            => /\ calls[c].returned = OwnReaders(c)
               /\ detected_readers = calls[c].returned

\* C18: chafon.crc over CF FF 00 50 00 is 0x0726, and the CF600 probe
\* command, that value appended high byte first, is CF FF 00 50 00 07 26:
\* these are the bytes a CF600 probe writes.
C18_CF600ProbeCommand ==
    /\ crc(<<207, 255, 0, 80, 0>>) = 1830
    /\ \A i \in ProbeIds :
          (detection_tasks[i].det = "CF600" /\ probes[i].sent # <<>>)
              => probes[i].sent = << <<207, 255, 0, 80, 0, 7, 38>> >>

\* a CF600 probe has written its command
C18_Witness ==
    \E i \in ProbeIds : detection_tasks[i].det = "CF600" /\ probes[i].sent # <<>>

\* the answer r200.py documents:
\* AA 01 03 00 10 00 4D 31 30 30 20 32 36 64 42 6D 20 56 31 2E 30 92 DD
DocumentedAnswer ==
    <<170, 1, 3, 0, 16, 0, 77, 49, 48, 48, 32, 50, 54, 100, 66, 109, 32, 86,
      49, 46, 48, 146, 221>>

\* C19: R200DetectorAADD.validate_response accepts the documented 23-byte
\* answer, whose additive checksum over bytes 1..20 is 0x92, and
\* get_device_info on it is the 15-character text "M100 26dBm V1.0" of
\* bytes 6..20: a probe handed that answer yields a reader with that text.
C19_DocumentedAnswerAccepted ==
    /\ Len(DocumentedAnswer) = 23
    /\ SumSeq(SubSeq(DocumentedAnswer, 2, 21)) % 256 = 146
    /\ \A i \in ProbeIds :
          (/\ detection_tasks[i].det = "R200 (AADD)"
           /\ probes[i].pc = "returned"
           /\ probes[i].handed = DocumentedAnswer)
              => probes[i].result =
                    ResultReader([port |-> detection_tasks[i].port,
                                  reader_type |-> "R200 (AADD)",
                                  device_info |-> <<77, 49, 48, 48, 32, 50, 54, 100,
                                                    66, 109, 32, 86, 49, 46, 48>>])

\* an R200 (AADD) probe returned after the documented answer came in whole
C19_Witness ==
    \E i \in ProbeIds :
        /\ detection_tasks[i].det = "R200 (AADD)"
        /\ probes[i].pc = "returned"
        /\ probes[i].handed = DocumentedAnswer

-----------------------------------------------------------------------------
(* A SerialTransport and its owner: connect(), disconnect() and write() in *)
(* any order, the port dropping at any time.  connect() is called on a     *)
(* transport whose port is not open.  Every write is logged with the state *)
(* it was called in, and last names the call that returned last.           *)

\* write calls logged
MaxWrites == 3

\* connections one transport makes
MaxConnects == 2

\* SerialTransport.__init__; attached: self.transport is the port now open.
\* conn numbers the connections; closing is the connection whose port
\* close() shut and whose connection_lost(None) is still to come; dropped
\* are the connections that ended by themselves; notified logs the calls
\* of the connection-loss callback.
NewTransport ==
    [pc |-> "idle", endpoint |-> "none", attached |-> FALSE, handle |-> FALSE,
     is_connected |-> FALSE, lost |-> FALSE, sent |-> <<>>, writes |-> <<>>,
     last |-> "", connection_lost_callback |-> FALSE, conn |-> 0, closing |-> 0,
     dropped |-> {}, notified |-> <<>>]

\* the owner may have called set_connection_lost_callback
InitTransport ==
    /\ \E registered \in BOOLEAN :
          transport = [NewTransport EXCEPT !.connection_lost_callback = registered]
    /\ plausible_ports = <<>>
    /\ detectors = <<>>
    /\ sweep_pc = "none"
    /\ detection_tasks = <<>>
    /\ detected_readers = <<>>
    /\ probes = <<>>
    /\ calls = <<>>
    /\ NoSession

SetTransport(t) ==
    /\ transport' = [t EXCEPT !.last = ""]
    /\ UNCHANGED <<plausible_ports, detectors, sweep_pc, detection_tasks,
                   detected_readers, probes, calls>>
    /\ UNCHANGED <<sessVars, reqVars>>

\* connect(): create_serial_connection opens the port
TOpen ==
    /\ transport.pc = "idle"
    /\ transport.endpoint # "open"
    /\ transport.conn < MaxConnects
    /\ SetTransport([transport EXCEPT !.pc = "connecting", !.endpoint = "open",
                                      !.attached = FALSE, !.lost = FALSE,
                                      !.conn = @ + 1])

\* the event loop calls connection_made; a connection_lost still due for
\* the connection before was scheduled earlier and has run
TConnectionMade ==
    /\ transport.pc = "connecting"
    /\ ~transport.attached
    /\ transport.closing = 0
    /\ SetTransport([connection_made(transport) EXCEPT !.attached = TRUE])

\* connect() returns self.is_connected
TConnectReturn ==
    /\ transport.pc = "connecting"
    /\ transport.attached
    /\ SetTransport([transport EXCEPT !.pc = "idle"])

\* a connection_lost that does not call the registered callback
notify_loss_silent(t, c, how) == t

\* connection_lost: if self.transport_instance.connection_lost_callback:
\* the callback is called, for connection c
notify_loss(t, c, how) ==
    IF t.connection_lost_callback
    THEN [t EXCEPT !.notified = Append(@, [conn |-> c, how |-> how])]
    ELSE t

\* the port drops: connection_lost(exc)
TConnectionLost ==
    /\ transport.attached
    /\ transport.endpoint = "open"
    /\ SetTransport(notify_loss([connection_lost(transport)
                                    EXCEPT !.dropped = @ \cup {transport.conn}],
                                transport.conn, "drop"))

\* the port close() shut is gone: connection_lost(None)
TCloseNotify ==
    /\ transport.closing # 0
    /\ SetTransport(notify_loss([transport EXCEPT !.is_connected = FALSE,
                                                  !.closing = 0],
                                transport.closing, "close"))

\* disconnect(), in any state: self.transport is the port now open only
\* once connection_made has run for it; before that it is None or the
\* closed port of the connection before
TDisconnect ==
    /\ LET d == disconnect(transport)
           shuts == transport.attached /\ transport.endpoint = "open"
       IN  transport' = [(IF transport.attached THEN d
                          ELSE [d EXCEPT !.endpoint = transport.endpoint])
                            EXCEPT !.last = "disconnect",
                                   !.closing = IF shuts THEN transport.conn ELSE @]
    /\ UNCHANGED <<plausible_ports, detectors, sweep_pc, detection_tasks,
                   detected_readers, probes, calls>>
    /\ UNCHANGED <<sessVars, reqVars>>

\* write(data): raises, or hands data to the port
TWrite(data) ==
    /\ Len(transport.writes) < MaxWrites
    /\ LET raised == write_raises(transport)
           sent == IF raised THEN transport.sent ELSE Append(transport.sent, data)
           entry == [connected |-> transport.endpoint = "open" /\ transport.attached,
                     endpoint |-> transport.endpoint,
                     lost |-> transport.lost,
                     raised |-> raised,
                     before |-> Len(transport.sent),
                     after |-> Len(sent)]
       IN  SetTransport([transport EXCEPT !.sent = sent,
                                          !.writes = Append(@, entry)])

NextTransport ==
    \/ TOpen
    \/ TConnectionMade
    \/ TConnectReturn
    \/ TConnectionLost
    \/ TCloseNotify
    \/ TDisconnect
    \/ \E det \in {"R200 (AADD)", "CF600"} : TWrite(get_detection_command(det))

SpecTransport == InitTransport /\ [][NextTransport]_vars

\* the log of a transport, when there is one
WriteLog == IF transport = <<>> THEN <<>> ELSE transport.writes

\* C20: SerialTransport.write called while the transport is not connected
\* (never connected, after disconnect(), after a connection loss) fails
\* with an error and sends no bytes to the port.
C20_WriteNeedsConnection ==
    \A k \in 1..Len(WriteLog) :
        ~WriteLog[k].connected
            => WriteLog[k].raised /\ WriteLog[k].after = WriteLog[k].before

\* writes were tried on a transport never connected, after disconnect()
\* and after a connection loss
C20_Witness ==
    /\ \E k \in 1..Len(WriteLog) : WriteLog[k].endpoint = "none"
    /\ \E k \in 1..Len(WriteLog) : WriteLog[k].endpoint = "closed" /\ ~WriteLog[k].lost
    /\ \E k \in 1..Len(WriteLog) : WriteLog[k].endpoint = "closed" /\ WriteLog[k].lost

\* C21: disconnect() may be called in any transport state and any number
\* of times: once it has returned the port, if one was opened, is released
\* and is_connected is false, and a second call changes nothing.
C21_DisconnectAlwaysReleases ==
    transport # <<>>
        => /\ transport.last = "disconnect"
                 => transport.endpoint # "open" /\ ~transport.is_connected
           /\ disconnect(disconnect(transport)) = disconnect(transport)

\* calls of the connection-loss callback made for connection c
NotifiedFor(c) ==
    {k \in 1..Len(transport.notified) : transport.notified[k].conn = c}

\* C22: when an established connection drops by itself the registered
\* connection-loss callback is called exactly once for that connection,
\* not zero times and not a second time, whatever is called afterwards.
C22_LossNotifiedOnce ==
    (transport # <<>> /\ transport.connection_lost_callback)
        => \A c \in transport.dropped : Cardinality(NotifiedFor(c)) = 1

\* the first connection dropped and was notified, a second connection was
\* made, and disconnect() has just been called on it
C22_Witness ==
    /\ transport # <<>>
    /\ transport.connection_lost_callback
    /\ 1 \in transport.dropped
    /\ Cardinality(NotifiedFor(1)) = 1
    /\ transport.conn = 2
    /\ transport.closing = 2
    /\ transport.last = "disconnect"

\* C23: inbound data cannot wedge the session: whatever chunks arrived
\* before (heartbeats, other frames, a single-read reply with an empty
\* EPC), a read_single whose valid reply with a non-empty EPC has arrived
\* after its command was written, before its deadline, is not left
\* pending: it has completed with that reply.
C23_NeverWedged ==
    \A r \in Pending :
        current_callback["sess"] = ReqCb(r)
            => ~\E j \in 1..Len(segs) : segs[j].k = "single" /\ ArrivedSince(r, j)

\* session s has received a proper prefix of segment j, a frame, and no
\* byte after it
HoldsPrefixOf(s, j) ==
    /\ segs[j].k # "noise"
    /\ SegStart(j) < fed[s]
    /\ fed[s] < SegEnd(j)

\* C24: when the buffer holds only a prefix of a frame (start marker seen,
\* the rest not yet all present) the data sink raises no error, emits
\* nothing for that frame and keeps the prefix in the accumulation buffer.
C24_PrefixIsIncomplete ==
    \A s \in DOMAIN fed : \A j \in 1..Len(segs) :
        HoldsPrefixOf(s, j)
            => /\ ~sink_raised[s]
               /\ Len(response_buffer[s]) >= fed[s] - SegStart(j)
               /\ SubSeq(response_buffer[s],
                         Len(response_buffer[s]) - (fed[s] - SegStart(j)) + 1,
                         Len(response_buffer[s]))
                    = SubSeq(stream, SegStart(j) + 1, fed[s])

\* C25: the bytes of a frame that was emitted, or that was corrupt and made
\* the decoder resynchronize, do not stay in the accumulation buffer: once
\* such a frame has arrived completely the buffer holds at most the bytes
\* that arrived after it.
C25_BufferEmptiedOfFrames ==
    \A s \in DOMAIN fed : \A j \in 1..Len(segs) :
        (segs[j].k \in {"single", "corrupt", "badend"} /\ SegEnd(j) <= fed[s])
            => Len(response_buffer[s]) <= fed[s] - SegEnd(j)

\* C26: the decoder of a session accepts only frames whose start and end
\* marker are those of the session's flavor: the EPC of a frame with the
\* other flavor's markers, or with mixed markers, is never delivered.
C26_OnlyOwnFlavorAccepted ==
    \A s \in DOMAIN delivered : \A k \in 1..Len(delivered[s]) :
        \A e \in OtherEPCs : delivered[s][k] # <<e>>

\* C29: a frame whose last byte is not the end marker is dropped: nothing
\* of it is delivered, and a valid frame that follows it is decoded and
\* delivered.
C29_WrongEndDropped ==
    \A s \in DOMAIN delivered :
        /\ OnlyKind("badend") => delivered[s] = <<>>
        /\ (/\ Len(segs) = 2
            /\ segs[1].k = "badend" /\ segs[2].k = "single"
            /\ AllFed(s))
              => delivered[s] = << <<segs[2].e>> >>

\* what the data sink delivers when the bytes f arrive alone in one chunk
DeliveredAlone(f) == handle_data_received(<<>>, OnResponse, f).calls

\* the script is one or two noise bytes followed by one frame
NoiseThenFrame ==
    /\ Len(segs) >= 2
    /\ \A j \in 1..(Len(segs) - 1) : segs[j].k = "noise"
    /\ segs[Len(segs)].k # "noise"

\* C30: bytes before the first start marker are dropped: bytes that are no
\* start marker followed by a frame yield what the frame alone yields, the
\* EPC if the frame is a valid single-read notification.
C30_LeadingBytesDropped ==
    \A s \in DOMAIN delivered :
        (NoiseThenFrame /\ AllFed(s))
            => /\ delivered[s] = DeliveredAlone(SegBytes(segs[Len(segs)]))
               /\ segs[Len(segs)].k = "single"
                     => delivered[s] = << <<segs[Len(segs)].e>> >>

\* two noise bytes, one of them an end marker, then a single-read frame
\* received byte by byte, and its EPC delivered
C30_Witness ==
    /\ segs = <<[k |-> "noise", b |-> 221], [k |-> "noise", b |-> 85],
                [k |-> "single", e |-> 17]>>
    /\ AllFed("bytewise")
    /\ delivered["bytewise"] = << <<17>> >>

-----------------------------------------------------------------------------
(* The debounced probes: chafon.detect_device_async and                     *)
(* R200Interrogator.detect_device_async.  One probe runs on a port; every   *)
(* chunk re-arms a settle task that sets response_ready 0.2 s later, and    *)
(* the probe waits for response_ready with a hard deadline of 2 s.  The    *)
(* probe is probes[1]: det says which function and flavor it is, settle is  *)
(* data_settling_task ("none", "armed", "done"), reply the chunks the       *)
(* device still sends, outcomes the values the probe returned, by the way   *)
(* ("how") the wait ended, late the timers that fired after the return,     *)
(* timers the settle tasks created and neither finished nor cancelled.      *)

DebouncedDetectors == {"CF600", "R200 (AADD)", "R200 (BB7E)"}

\* return False, ""
NotDetected == [ok |-> FALSE, device_info |-> <<>>]

\* chafon.detect_device_async: the validation of result; device_info is the
\* first 8 bytes of the response
chafon_result(result) ==
    IF Len(result) >= 4 /\ result[1] = 207
    THEN IF crc(DropLast2(result)) = result[Len(result) - 1] * 256 + Last(result)
         THEN [ok |-> TRUE, device_info |-> SubSeq(result, 1, Min(8, Len(result)))]
         ELSE NotDetected
    ELSE NotDetected

\* R200Interrogator.detect_device_async: the validation of result
r200_result(fl, result) ==
    IF /\ Len(result) >= 3
       /\ result[2] = 1
       /\ result[3] = 3
       /\ result[1] = StartOf(fl)
       /\ Last(result) = StopOf(fl)
    THEN IF Len(result) >= 22
         THEN LET ascii_text == Strip(AsciiIgnore(SubSeq(result, 7, 21)))
              IN  [ok |-> TRUE,
                   device_info |-> IF ascii_text # <<>> THEN ascii_text
                                   ELSE R200ReaderText]
         ELSE [ok |-> TRUE, device_info |-> R200ReaderText]
    ELSE NotDetected

\* what the probe returns once the wait has ended with response_ready set
debounced_result(det, result) ==
    CASE det = "CF600"       -> chafon_result(result)
      [] det = "R200 (AADD)" -> r200_result("AADD", result)
      [] det = "R200 (BB7E)" -> r200_result("BB7E", result)

NewDebounced(det, reply) ==
    [det |-> det, pc |-> "start", endpoint |-> "none", response_data |-> <<>>,
     settle |-> "none", response_ready |-> FALSE, expired |-> FALSE,
     reply |-> reply, outcomes |-> <<>>, late |-> 0, timers |-> 0]

InitDebounce ==
    /\ \E det \in DebouncedDetectors : \E reply \in Replies(det) :
          probes = <<NewDebounced(det, reply)>>
    /\ plausible_ports = <<>>
    /\ detectors = <<>>
    /\ sweep_pc = "none"
    /\ detection_tasks = <<>>
    /\ detected_readers = <<>>
    /\ calls = <<>>
    /\ transport = <<>>
    /\ NoSession

SetDebounced(d) ==
    /\ probes' = <<d>>
    /\ UNCHANGED <<plausible_ports, detectors, sweep_pc, detection_tasks,
                   detected_readers, calls, transport>>
    /\ UNCHANGED <<sessVars, reqVars>>

\* the probe returns outcome o: the finally clause disconnects the transport
Return(d, o, how) ==
    [d EXCEPT !.pc = "returned",
              !.endpoint = IF d.endpoint = "open" THEN "closed" ELSE @,
              !.outcomes = Append(@, [ok |-> o.ok, device_info |-> o.device_info,
                                      how |-> how])]

\* from the call to the wait: connect() fails and the probe returns, or it
\* succeeds, the callback is set and the command written
DStart ==
    /\ probes[1].pc = "start"
    /\ \E connected \in BOOLEAN :
          IF connected
          THEN SetDebounced([probes[1] EXCEPT !.pc = "waiting", !.endpoint = "open"])
          ELSE SetDebounced(Return(probes[1], NotDetected, "connect"))

\* data_callback: the chunk is appended, a settle task that is not done is
\* cancelled and a new one created
DChunkArrives ==
    /\ probes[1].endpoint = "open"
    /\ probes[1].reply # <<>>
    /\ SetDebounced([probes[1] EXCEPT !.response_data = @ \o Head(probes[1].reply),
                                     !.reply = Tail(@),
                                     !.settle = "armed",
                                     !.timers = IF probes[1].settle = "armed"
                                                THEN (@ - 1) + 1 ELSE @ + 1])

\* settle_data: the sleep of 0.2 s is over, response_ready.set(); it may be
\* over after the probe has returned
DSettleFires ==
    /\ probes[1].settle = "armed"
    /\ SetDebounced([probes[1] EXCEPT !.settle = "done",
                                     !.response_ready = TRUE,
                                     !.timers = @ - 1,
                                     !.late = IF probes[1].pc = "returned"
                                              THEN @ + 1 ELSE @])

\* wait_for returns because response_ready is set: the result is validated
DWaitReturns ==
    /\ probes[1].pc = "waiting"
    /\ probes[1].response_ready
    /\ SetDebounced(Return(probes[1],
                           debounced_result(probes[1].det, probes[1].response_data),
                           "settled"))

\* a hard deadline that is still live after the wait has ended, and ends
\* it again
DDeadlineLive ==
    /\ ~probes[1].expired
    /\ probes[1].pc \in {"waiting", "returned"}
    /\ SetDebounced([Return(probes[1], NotDetected, "deadline")
                        EXCEPT !.expired = TRUE])

\* the hard deadline of wait_for passes.  While the probe waits, the wait
\* ends with asyncio.TimeoutError and the probe returns False, ""; if
\* response_ready was set in the same instant wait_for may return instead.
\* After the probe returned the timeout is cancelled and nothing happens.
DDeadline ==
    /\ ~probes[1].expired
    /\ \/ /\ probes[1].pc = "waiting"
          /\ \/ SetDebounced([Return(probes[1], NotDetected, "deadline")
                                 EXCEPT !.expired = TRUE])
             \/ /\ probes[1].response_ready
                /\ SetDebounced([Return(probes[1],
                                        debounced_result(probes[1].det,
                                                         probes[1].response_data),
                                        "settled")
                                    EXCEPT !.expired = TRUE])
       \/ /\ probes[1].pc = "returned"
          /\ SetDebounced([probes[1] EXCEPT !.expired = TRUE,
                                           !.late = @ + 1])

NextDebounce ==
    \/ DStart
    \/ DChunkArrives
    \/ DSettleFires
    \/ DWaitReturns
    \/ DDeadline

SpecDebounce == InitDebounce /\ [][NextDebounce]_vars

\* the debounced probe, if there is one
Debounced == IF probes = <<>> THEN {} ELSE {probes[1]}

\* C27: when the hard deadline ends the wait of a probe that has received
\* bytes, the buffer is validated all the same: if it holds a valid reply
\* the probe reports a detection.
C27_DeadlineValidatesBuffer ==
    \A d \in Debounced :
        (/\ d.pc = "returned"
         /\ d.outcomes[1].how = "deadline"
         /\ debounced_result(d.det, d.response_data).ok)
            => d.outcomes[1].ok

\* the probe has returned, once, and its outcome is what it returned
ReturnedOnce ==
    \A d \in Debounced :
        /\ Len(d.outcomes) <= 1
        /\ d.pc = "returned" <=> Len(d.outcomes) = 1

\* nothing that happens after the return changes the outcome
OutcomeStays ==
    (probes # <<>> /\ probes[1].pc = "returned")
        => probes'[1].outcomes = probes[1].outcomes /\ probes'[1].pc = "returned"

-----------------------------------------------------------------------------
(* Claims about the encoders and the checksums *)

\* the host frames of the script
CmdFrames == {j \in 1..Len(segs) : segs[j].k = "cmd"}

\* C31: the checksum byte the R200 encoder writes is the sum modulo 256 of
\* the direction byte, the command id, both length bytes and the payload
\* bytes, and it is the value the decoder computes over the received frame:
\* the decoder reports no invalid checksum for it.
C31_ChecksumAgrees ==
    \A j \in CmdFrames :
        LET f == SegBytes(segs[j])
            pl == Len(segs[j].p)
        IN  /\ f[Len(f) - 1]
                 = SumSeq(<<0, segs[j].c, pl \div 256, pl % 256>> \o segs[j].p) % 256
            /\ f[Len(f) - 1] = checksum_actual(f, 5, pl)
            /\ \A k \in 1..Len(parse_response(f).out) :
                   parse_response(f).out[k] # "invalid checksum"

\* a host frame whose byte sum exceeds 255 has been received whole and
\* parsed without an error
C31_Witness ==
    /\ Len(segs) = 1
    /\ segs[1].k = "cmd" /\ segs[1].p = <<255>>
    /\ AllFed("whole")
    /\ ~sink_raised["whole"]

\* C32: for every R200 command the BB7E wire bytes are the AADD wire bytes
\* with the first byte BB instead of AA and the last 7E instead of DD, by
\* each way the source has of producing them: the patch of send_command and
\* of the BB7E detector, and R200Command.rawbytes.
C32_FlavorsDifferInMarkersOnly ==
    \A j \in CmdFrames :
        LET aadd == R200CommandBytes(segs[j].c, segs[j].p)
            expected == [aadd EXCEPT ![1] = 187, ![Len(aadd)] = 126]
        IN  /\ PatchFlavor("BB7E", aadd) = expected
            /\ PatchFlavor("AADD", aadd) = aadd
            /\ rawbytes(segs[j].c, segs[j].p, "BB7E").raised = "none"
            /\ rawbytes(segs[j].c, segs[j].p, "BB7E").val = expected

-----------------------------------------------------------------------------
(* The two CRC functions, hyb506.crc16 and chafon.crc, called on the same   *)
(* byte sequence, stream.  rpc is each call's position and retval what it  *)
(* returned.                                                               *)

\* length of the byte sequences the functions are called on
MaxCrcLen == 3

\* byte values of the input: all bits clear, low bit, high bit, all bits set
CrcBytes == {0, 1, 128, 255}

CrcFunctions == {"crc16", "crc"}

CrcInputs == UNION {[1..n -> CrcBytes] : n \in 0..MaxCrcLen}

InitCrc ==
    /\ stream \in CrcInputs
    /\ rpc = [f \in CrcFunctions |-> "idle"]
    /\ retval = [f \in CrcFunctions |-> "none"]
    /\ future = <<>>
    /\ fresult = <<>>
    /\ issued_at = <<>>
    /\ segs = <<>>
    /\ cuts = {}
    /\ fed = <<>>
    /\ response_buffer = <<>>
    /\ current_callback = <<>>
    /\ delivered = <<>>
    /\ sink_raised = <<>>
    /\ is_connected = <<>>
    /\ written = <<>>
    /\ NoSweep

\* one call of crc16(stream) or crc(stream), from entry to return
CrcCall(f) ==
    /\ rpc[f] = "idle"
    /\ rpc' = [rpc EXCEPT ![f] = "returned"]
    /\ retval' = [retval EXCEPT ![f] = IF f = "crc16" THEN crc16(stream)
                                                     ELSE crc(stream)]
    /\ UNCHANGED sessVars
    /\ UNCHANGED <<future, fresult, issued_at>>
    /\ UNCHANGED sweepVars

NextCrc == \E f \in CrcFunctions : CrcCall(f)

SpecCrc == InitCrc /\ [][NextCrc]_vars

\* bit k of register c inverted
Toggle(c, k) == IF (c \div (2 ^ k)) % 2 = 1 THEN c - 2 ^ k ELSE c + 2 ^ k

\* the register with the bits of 0x10810 inverted: bits 4, 11 and 16
Toggle10810(c) == Toggle(Toggle(Toggle(c, 4), 11), 16)

\* a CRC round that inverts the bits of 0x10810 first, whether or not the
\* low bit is set, and then shifts right by one
RoundXorAlways(c) == Toggle10810(c) \div 2

\* a CRC round that inverts the bits of 0x10810 first if the low bit is set,
\* and then shifts right by one
RoundXorIfLowBit(c) == IF c % 2 = 1 THEN Toggle10810(c) \div 2 ELSE c \div 2

RECURSIVE Rounds(_, _, _)
Rounds(Round(_), c, j) == IF j = 0 THEN c ELSE Rounds(Round, Round(c), j - 1)

\* the register with byte b XORed into its low 8 bits
XorByte(c, b) ==
    LET low == c % 256
        bits == [k \in 0..7 |-> ((low \div (2 ^ k)) + (b \div (2 ^ k))) % 2]
    IN  (c - low) + bits[0] + 2 * bits[1] + 4 * bits[2] + 8 * bits[3]
            + 16 * bits[4] + 32 * bits[5] + 64 * bits[6] + 128 * bits[7]

\* the CRC of data with preset 0xFFFF and 8 rounds of Round per byte
RECURSIVE CrcBy(_, _, _)
CrcBy(Round(_), c, data) ==
    IF data = <<>> THEN c
    ELSE CrcBy(Round, Rounds(Round, XorByte(c, Head(data)), 8), Tail(data))

\* C33 as stated: crc16 handles each of the 8 bits per byte by XORing
\* 0x10810 into the register first, whether or not the low bit is set, and
\* then shifting right by one.
C33_XorInEveryRound ==
    ("crc16" \in DOMAIN rpc /\ rpc["crc16"] = "returned")
        => retval["crc16"] = CrcBy(RoundXorAlways, 65535, stream)

\* C33 as amended: crc16 handles each of the 8 bits per byte by XORing
\* 0x10810 into the register first if the low bit is set, and then shifting
\* right by one in either case.
C33_XorIfLowBitThenShift ==
    ("crc16" \in DOMAIN rpc /\ rpc["crc16"] = "returned")
        => retval["crc16"] = CrcBy(RoundXorIfLowBit, 65535, stream)

\* crc16 has returned for three bytes, among them 0xFF and 0x00
C33_Witness ==
    /\ "crc16" \in DOMAIN rpc
    /\ rpc["crc16"] = "returned"
    /\ stream = <<255, 0, 128>>

\* C34: hyb506.crc16 and chafon.crc return the same value for every byte
\* sequence, a value within 0..0xFFFF.
C34_SameCrc ==
    (/\ DOMAIN rpc = CrcFunctions
     /\ rpc["crc16"] = "returned"
     /\ rpc["crc"] = "returned")
        => /\ retval["crc16"] = retval["crc"]
           /\ retval["crc"] \in 0..65535

\* both have returned for three bytes, among them 0x01 and 0xFF
C34_Witness ==
    /\ DOMAIN rpc = CrcFunctions
    /\ rpc["crc16"] = "returned" /\ rpc["crc"] = "returned"
    /\ stream = <<1, 255, 128>>

\* C35: an echo of the probe command is never taken for a reader: a probe
\* whose response is the command it wrote was rejected by its detector's
\* validate_response and yields no reader.
C35_EchoIsNoReader ==
    \A i \in ProbeIds :
        (/\ probes[i].pc = "returned"
         /\ probes[i].sent # <<>>
         /\ probes[i].handed = probes[i].sent[1])
            => /\ ~validate_response(detection_tasks[i].det, probes[i].handed)
               /\ probes[i].result = ResultNone

-----------------------------------------------------------------------------
(* Claims about the futures and the callback of the session *)

\* a future that has a result or was cancelled keeps its state and result
ResolvedStays ==
    \A r \in DOMAIN future :
        future[r] \in {"result", "cancelled"}
            => future'[r] = future[r] /\ fresult'[r] = fresult[r]

\* C36: each read_single future is resolved at most once: a frame that is
\* delivered when the future already has a result, or was cancelled by the
\* timeout, sets no result on it.
C36_FutureResolvedOnce == [][ResolvedStays]_vars

\* the request timed out with its callback still registered, and two frames
\* were delivered to the callback afterwards
C36_Witness ==
    /\ DOMAIN future = Reqs
    /\ future[1] = "cancelled"
    /\ fresult[1] = <<>>
    /\ current_callback["sess"] = ReqCb(1)
    /\ Len(delivered["sess"]) = 2

\* a read_single that starts on a session that is not connected raises, and
\* the registered callback and the bytes written stay as they were
RaisesAndChangesNothing ==
    \A r \in DOMAIN rpc :
        (/\ "sess" \in DOMAIN is_connected
         /\ ~is_connected["sess"]
         /\ rpc[r] = "idle"
         /\ rpc'[r] # "idle")
            => /\ rpc'[r] = "raised"
               /\ current_callback' = current_callback
               /\ written' = written

\* C39: send_command called while the transport is not connected raises an
\* error and changes nothing: no bytes are written and the registered
\* response callback is left as it was.
C39_SendNeedsConnection == [][RaisesAndChangesNothing]_vars

\* the first read_single is waiting with its callback registered, the
\* session was disconnected, and the second read_single raised
C39_Witness ==
    /\ DOMAIN rpc = Reqs
    /\ rpc[1] = "awaiting"
    /\ rpc[2] = "raised"
    /\ current_callback["sess"] = ReqCb(1)
    /\ written["sess"] = 1

\* C37: in a debounced probe at most one settle timer is armed at any
\* time, and when the probe has returned, on any path, the hard deadline
\* included, no settle timer is left armed.
C37_NoTimerLeftArmed ==
    \A d \in Debounced :
        /\ d.timers <= 1
        /\ d.pc = "returned" => d.timers = 0

\* C38: a probe registers its data callback before it writes its command:
\* a probe that has written and waits has a callback, and every chunk that
\* arrived after the write is in response_data, none was dropped.
C38_SinkBeforeWrite ==
    \A i \in ProbeIds :
        (probes[i].sent # <<>> /\ probes[i].pc = "waiting")
            => /\ probes[i].data_callback
               /\ probes[i].response_data
                     = Concat(SubSeq(probes[i].reply, 1, probes[i].arrived))

\* a probe that wrote its command has received both chunks of a split reply
C38_Witness ==
    \E i \in ProbeIds :
        /\ probes[i].sent # <<>>
        /\ probes[i].pc = "waiting"
        /\ probes[i].arrived = 2
        /\ probes[i].response_data = ValidReply(detection_tasks[i].det)

-----------------------------------------------------------------------------
(* parse_response as the loop it is: one call on the buffer stream, whose   *)
(* frame calls[1] holds the locals state, pos, msg_type, msg_cmd, pl and    *)
(* start_byte, the iterations made, and how the call ended.                 *)

\* segments of the buffers parse_response is called on
MaxParseSegs == 2

\* the buffers: the scripts of the reader, cut off after any byte
ParseInputs ==
    UNION { {SubSeq(StreamOf(ss), 1, n) : n \in 0..Len(StreamOf(ss))} :
              ss \in Scripts(DecodeCatalog, MaxParseSegs) }

\* state, pos, msg_type, msg_cmd, pl = 0, 0, 0, 0, 0
NewParse ==
    [pc |-> "loop", state |-> 0, pos |-> 0, msg_type |-> 0, msg_cmd |-> 0,
     pl |-> 0, start_byte |-> 0, iterations |-> 0, val |-> <<>>]

InitParse ==
    /\ stream \in ParseInputs
    /\ calls = <<NewParse>>
    /\ plausible_ports = <<>>
    /\ detectors = <<>>
    /\ sweep_pc = "none"
    /\ detection_tasks = <<>>
    /\ detected_readers = <<>>
    /\ probes = <<>>
    /\ transport = <<>>
    /\ segs = <<>>
    /\ cuts = {}
    /\ fed = <<>>
    /\ response_buffer = <<>>
    /\ current_callback = <<>>
    /\ delivered = <<>>
    /\ sink_raised = <<>>
    /\ is_connected = <<>>
    /\ written = <<>>
    /\ NoRequests

\* the call ends with IndexError
ParseRaised(f) == [f EXCEPT !.pc = "raised", !.iterations = @ + 1]

\* one pass through the body of "while pos < len(inp)", or the return after
\* the loop; step is what the last statement of the body adds to pos
iteration(f, inp, step) ==
    IF f.pos >= Len(inp)
    THEN [f EXCEPT !.pc = "returned", !.val = <<>>]
    ELSE IF f.state = 0 /\ (At(inp, f.pos) = 170 \/ At(inp, f.pos) = 187)
    THEN [f EXCEPT !.state = 1, !.start_byte = At(inp, f.pos),
                   !.pos = @ + step, !.iterations = @ + 1]
    ELSE IF f.state = 1
    THEN IF f.pos + 1 >= Len(inp)
         THEN ParseRaised(f)
         ELSE [f EXCEPT !.msg_type = At(inp, f.pos), !.msg_cmd = At(inp, f.pos + 1),
                        !.state = 2, !.pos = @ + 1 + step, !.iterations = @ + 1]
    ELSE IF f.state = 2
    THEN IF f.pos + 1 >= Len(inp)
         THEN ParseRaised(f)
         ELSE [f EXCEPT !.pl = At(inp, f.pos) * 256 + At(inp, f.pos + 1),
                        !.state = 3, !.pos = @ + 1 + step, !.iterations = @ + 1]
    ELSE IF f.state = 3
    THEN IF f.pos + f.pl + 1 >= Len(inp)
         THEN ParseRaised(f)
         ELSE IF /\ At(inp, f.pos + f.pl + 1) = end_byte(f.start_byte)
                 /\ f.msg_type = 2 /\ f.msg_cmd = 34
              THEN LET r == parse_single(Slice(inp, f.pos, f.pos + f.pl + 1), <<>>)
                   IN  IF r.raised THEN ParseRaised(f)
                       ELSE [f EXCEPT !.pc = "returned", !.val = r.val,
                                      !.iterations = @ + 1]
              ELSE [f EXCEPT !.state = 0, !.msg_type = 0, !.msg_cmd = 0, !.pl = 0,
                             !.pos = @ + 0 + step, !.iterations = @ + 1]
    ELSE [f EXCEPT !.pos = @ + step, !.iterations = @ + 1]

\* a loop body without its last statement, pos = pos + 1
parse_iteration_no_increment(f, inp) == iteration(f, inp, 0)

\* the loop body of parse_response, which ends with pos = pos + 1
parse_iteration(f, inp) == iteration(f, inp, 1)

ParseStep ==
    /\ calls[1].pc = "loop"
    /\ calls' = <<parse_iteration(calls[1], stream)>>
    /\ UNCHANGED <<plausible_ports, detectors, sweep_pc, detection_tasks,
                   detected_readers, probes, transport>>
    /\ UNCHANGED <<sessVars, reqVars>>

NextParse == ParseStep

SpecParse == InitParse /\ [][NextParse]_vars

\* the loop is scheduled until it ends
SpecParseFair == SpecParse /\ WF_vars(ParseStep)

\* the call of parse_response, if there is one
ParseCalls == IF calls = <<>> \/ sweep_pc # "none" THEN {} ELSE {calls[1]}

\* the loop has made at most len(inp) passes, and a call that ended agrees
\* with parse_response
ParseBounded ==
    \A f \in ParseCalls :
        /\ f.iterations <= Len(stream)
        /\ f.pc = "returned"
              => /\ ~parse_response(stream).raised
                 /\ f.val = parse_response(stream).val
        /\ f.pc = "raised" => parse_response(stream).raised

\* a pass of the loop that does not end the call moves pos forward
ParseAdvances ==
    (ParseCalls # {} /\ calls'[1].pc = "loop") => calls'[1].pos > calls[1].pos

\* the call has ended
ParseEnded == \A f \in ParseCalls : f.pc \in {"returned", "raised"}

\* C40: parse_response terminates on every finite buffer: every pass of the
\* loop moves the read position forward, so after at most len(buffer)
\* passes it returns a payload, returns empty, or fails on a short buffer.
C40_ParseTerminates ==
    /\ []ParseBounded
    /\ [][ParseAdvances]_vars
    /\ <>ParseEnded

\* a call on a buffer without any start marker ended after len(buffer)
\* passes
C40_Witness ==
    /\ ParseCalls # {}
    /\ calls[1].pc = "returned"
    /\ Len(stream) = 2
    /\ calls[1].iterations = Len(stream)

====
